---- MODULE Spec2Model ----
(***************************************************************************)
(* A model of muradnuriyev/monitoring_bot.                                 *)
(*                                                                         *)
(*   Spec     the monitoring orchestrator, monitor.check_product_and_buy   *)
(*   SpecCta  the buy-CTA selection functions of ai_detector on bounded    *)
(*            documents                                                    *)
(*   SpecFpb  ai_detector.find_product_and_buy on a bounded page           *)
(*   SpecFpbScan  the same on listing pages with several candidates        *)
(*   SpecFill form_filler.fill_and_submit_form, step by step               *)
(*   SpecSubmit  form_filler.click_submit_button on a bounded page         *)
(*   SpecWait    the challenge wait, the checkout wait, the confirmation wait *)
(*   SpecSleep   the jittered sleeps of monitor.py                         *)
(*   SpecBanner  ai_detector.dismiss_banners on a bounded page             *)
(*   SpecField   the field-filling helpers of form_filler.py               *)
(*   SpecSize    ai_detector.select_size_on_pdp on a bounded product page  *)
(*   SpecExpiry  form_filler._normalize_expiry on bounded strings          *)
(*   SpecExtract ai_detector.extract_candidate_cards on a bounded page     *)
(*   SpecSimilar ai_detector.similar on bounded strings                    *)
(*   SpecDriver  monitor.create_driver                                     *)
(*   SpecAdvance the controls form_filler.fill_and_submit_form clicks      *)
(*   SpecIframe  the driver's context in form_filler._try_fill_card_iframes *)
(*                                                                         *)
(* The browser is the environment: every driver call draws its outcome     *)
(* (success, a driver exception, a KeyboardInterrupt delivered while the   *)
(* call blocks) from the outcomes Selenium can produce.                    *)
(***************************************************************************)
EXTENDS Integers, Sequences, FiniteSets, TLC

(***************************************************************************)
(* Bounds of the model.                                                    *)
(***************************************************************************)
\* monitoring cycles of the `while True` loop that are explored
MaxCycles == 3
\* path segments of the monitored URL
MaxUrlSegs == 2
\* buttons and links of a document given to the CTA selection functions
MaxDocEls == 2
\* candidate cards on a page
MaxCards == 1
\* candidate cards on a listing page whose scan is followed
MaxScanCards == 2
\* elements of a checkout page that click_submit_button looks at
MaxSubmitEls == 2
\* the largest configured timeout of a waiting operation, in seconds
MaxWaitTotal == 2
\* the largest configured challenge_wait_poll, in seconds
MaxWaitPoll == 2
\* the largest configured retry_delay and retry_jitter, in seconds
MaxRetryDelay == 4
MaxRetryJitter == 3
\* elements of a page that dismiss_banners looks at
MaxBannerEls == 2
\* elements of a product page that select_size_on_pdp looks at
MaxSizeEls == 2
\* characters of the expiry given to _normalize_expiry
MaxExpiryLen == 6
\* largest value of the max_scrolls setting
MaxScrolls == 2
\* clicks the browser refuses during one find_product_and_buy invocation
MaxFailedClicks == 1
\* elements extract_candidate_cards looks at, and the largest limit argument
MaxBlocks == 3
MaxLimit == 2
\* characters of a name given to similar
MaxNameLen == 3
\* buttons and links of a checkout page the advances look at
MaxAdvanceEls == 2
\* iframe elements of the checkout page
MaxFrames == 2
\* the default of the min_match_score setting (0.7), in tenths
min_score_default == 7
\* the launch attempts of create_driver (`while attempts < 3`)
max_launch_attempts == 3

VARIABLES
    \* ---- check_product_and_buy: arguments and settings
    url,                \* the url argument, a sequence of path segments
    stop_on_success,    \* settings.get("stop_on_success", True)
    close_on_finish,    \* settings.get("close_on_finish", False)
    respect_robots,     \* settings.get("respect_robots", False)
    block_on_robots,    \* settings.get("block_on_robots", True)
    \* ---- check_product_and_buy: locals and the browser
    pc,                 \* position in check_product_and_buy
    cycle,              \* the local `cycle`
    idx,                \* index into urls_to_monitor (1-based)
    purchase_initiated, \* the local `purchase_initiated`
    current_url,        \* driver.current_url: 0 = some other page, i = urls_to_monitor[i]
    challenge,          \* the page shows an anti-bot challenge
    browser,            \* "none" | "open" | "closed"
    pending,            \* what the function is about to return or raise (in `finally`)
    result,             \* "running", or how the call ended
    \* ---- history of the session
    fpbTrueCount,       \* times find_product_and_buy returned true (capped at 2)
    afterOps,           \* operations performed after purchase_initiated became true
    interrupted,        \* where a KeyboardInterrupt was raised: "none" or the region
    undetected,         \* the page was loaded or refreshed and no challenge detection ran since
    quit_called,        \* driver.quit() was called
    clicked_in_call     \* a buy CTA click had succeeded inside the call the interrupt ended

monVars == <<url, stop_on_success, close_on_finish, respect_robots, block_on_robots,
             pc, cycle, idx, purchase_initiated, current_url, challenge, browser,
             pending, result, fpbTrueCount, afterOps, interrupted,
             undetected, quit_called, clicked_in_call>>

monInputs == <<url, stop_on_success, close_on_finish, respect_robots, block_on_robots>>

VARIABLES
    \* ---- the buy-CTA selection functions of ai_detector: the document
    doc,                \* the //button | //a elements of the document, in document order
    cardLo, cardHi,     \* the elements doc[cardLo..cardHi] lie in the product card's subtree
    wrapLo, wrapHi,     \* the subtree of the card's third ancestor (html and body hold all)
    \* ---- and what each function returned: an index into doc, 0 for None
    ctaPc,              \* which function is applied next
    inline_btn,         \* find_buy_button_in(card)
    near_btn,           \* find_buy_button_near(driver, card)
    add_btn,            \* find_global_add_to_cart(driver)
    buy_ctas            \* find_global_buy_ctas(driver), a sequence of indices

ctaVars == <<doc, cardLo, cardHi, wrapLo, wrapHi, ctaPc, inline_btn, near_btn,
             add_btn, buy_ctas>>

ctaInputs == <<doc, cardLo, cardHi, wrapLo, wrapHi>>

VARIABLES
    \* ---- find_product_and_buy: arguments and settings
    page0,              \* the page the call starts on
    settings,           \* the settings the function reads
    cc_info,            \* cc_info is non-empty
    preferred_size,     \* preferred_size is given
    \* ---- find_product_and_buy: locals and the browser
    fpc,                \* position in find_product_and_buy
    page,               \* the page the browser shows
    gen,                \* number of navigations so far: older references are stale
    pass_i,             \* the loop variable `pass_i`
    best_score,         \* the local `best_score`, in tenths
    best_match,         \* the local `best_match`
    fresult,            \* "running", or how the call ended
    \* ---- history of the call
    clicks,             \* the clicks attempted, in order
    checkoutCalls,      \* calls of proceed_to_checkout
    fillCalls,          \* calls of fill_and_submit_form
    scrolls,            \* scroll-advances at the end of a pass
    scored              \* the candidates scored so far (lines 401-402), in order

fpbVars == <<page0, settings, cc_info, preferred_size, fpc, page, gen, pass_i,
             best_score, best_match, fresult, clicks, checkoutCalls, fillCalls,
             scrolls, scored>>

fpbInputs == <<page0, settings, cc_info, preferred_size>>

VARIABLES
    \* ---- form_filler.fill_and_submit_form
    ffPc,               \* position in fill_and_submit_form
    ffLog,              \* the steps run, in order, each with whether it found its element
    ffRaised            \* a step raised and the handler of line 612 caught it

fillVars == <<ffPc, ffLog, ffRaised>>

VARIABLES
    \* ---- form_filler.click_submit_button
    sbDoc,              \* the elements the two XPath queries can return, in document order
    sbPc,               \* position in click_submit_button
    sbScored,           \* the local `scored` after the sort, as indices into sbDoc
    sbI,                \* the loop position, in `scored` and then in `inputs`
    sbLog,              \* the driver operations on elements, in order
    sbResult            \* "running", "True" or "False"

submitVars == <<sbDoc, sbPc, sbScored, sbI, sbLog, sbResult>>

VARIABLES
    \* ---- the three waiting operations
    wKind,              \* "challenge", "checkout" or "confirm": which operation runs
    strategy,           \* settings["challenge_strategy"]
    total,              \* the configured timeout of the operation, in seconds
    poll,               \* settings["challenge_wait_poll"]
    waited,             \* the local `waited` of the 'wait' strategy
    now,                \* time.time() since the operation started
    wPc,                \* position in the operation
    wOps,               \* the kinds of call the operation has made
    wResult             \* "running", "True", "False", "None" or "raised"

waitVars == <<wKind, strategy, total, poll, waited, now, wPc, wOps, wResult>>

VARIABLES
    \* ---- the jittered sleeps of monitor.py
    retry_delay,        \* int(settings["retry_delay"])
    retry_jitter,       \* int(settings["retry_jitter"])
    sleep_site,         \* "none", "backoff" (line 200) or "retry" (line 311)
    sleep_s             \* the local `sleep_s`, 0 before it is computed

sleepVars == <<retry_delay, retry_jitter, sleep_site, sleep_s>>

VARIABLES
    \* ---- ai_detector.dismiss_banners
    bnDoc,              \* the elements of the page, in document order
    bnSetting,          \* settings.get("dismiss_banners"): "absent", "True" or "False"
    bnPc,               \* position in dismiss_banners
    bnI,                \* the loop position, in `ctas` and then in `closes`
    dismissed,          \* the local `dismissed`
    bnLog,              \* the calls of safe_click, in order
    bnResult            \* "running", or the value returned

bannerVars == <<bnDoc, bnSetting, bnPc, bnI, dismissed, bnLog, bnResult>>

VARIABLES
    \* ---- the three field-filling helpers of form_filler.py
    cc_keys,            \* the semantic keys cc_info holds with a non-empty value
    page_inputs,        \* the displayed inputs of the main document, named by the field they are for
    frame_inputs,       \* the inputs inside the payment iframe, likewise
    fkPc,               \* which helper runs next
    cleared_inputs,     \* the fields whose input was cleared
    written_inputs,     \* the fields whose input received send_keys
    counted,            \* the fields that were counted in `filled`
    filled              \* the sum of the helpers' `filled` counters

fieldVars == <<cc_keys, page_inputs, frame_inputs, fkPc, cleared_inputs, written_inputs,
               counted, filled>>

VARIABLES
    \* ---- ai_detector.select_size_on_pdp
    szDoc,              \* the elements of the product page, in document order
    szToken,            \* preferred_size, stripped and lower-cased ("" when empty or absent)
    szPc,               \* position in select_size_on_pdp
    szI,                \* the loop position, in `candidates` and then in `els`
    szLog,              \* the calls of safe_click, in order
    szResult            \* "running", "True" or "False"

sizeVars == <<szDoc, szToken, szPc, szI, szLog, szResult>>

VARIABLES
    \* ---- form_filler._normalize_expiry
    expiry_in,          \* the argument, a sequence of characters
    expiry_out,         \* what _normalize_expiry returned for it
    expiry_again,       \* what _normalize_expiry returned for expiry_out
    exPc                \* "start", "once" or "twice"

expiryVars == <<expiry_in, expiry_out, expiry_again, exPc>>

VARIABLES
    \* ---- ai_detector.extract_candidate_cards
    blocks,             \* the div/article/section/li elements with text, in document order
    limit,              \* the limit argument
    excPc,              \* position in extract_candidate_cards
    exI,                \* the loop position in `els`
    candidates          \* the list being built, as indices into blocks

extractVars == <<blocks, limit, excPc, exI, candidates>>

VARIABLES
    \* ---- ai_detector.similar
    name_a,             \* the first argument, a sequence of characters
    name_b,             \* the second argument
    score_ab,           \* similar(name_a, name_b), a fraction <<numerator, denominator>>
    score_ba,           \* similar(name_b, name_a)
    score_aa,           \* similar(name_a, name_a)
    simPc               \* "start" or "done"

similarVars == <<name_a, name_b, score_ab, score_ba, score_aa, simPc>>

VARIABLES
    \* ---- monitor.create_driver
    use_undetected,         \* the local `use_undetected`
    fell_back_to_standard,  \* the local `fell_back_to_standard`
    attempts,               \* the local `attempts`
    last_error,             \* the local `last_error` ("None" before a failure)
    launches,               \* the launch attempts made, in order
    cdPc,                   \* position in create_driver
    cdResult                \* how the call ended ("running" before)

driverVars == <<use_undetected, fell_back_to_standard, attempts, last_error, launches,
                cdPc, cdResult>>

VARIABLES
    \* ---- form_filler.fill_and_submit_form: the controls its advances click
    adv_page,           \* the buttons and links of the checkout page, in document order
    advPc,              \* position in fill_and_submit_form
    advLog              \* the steps run and the controls clicked, in order

advanceVars == <<adv_page, advPc, advLog>>

VARIABLES
    \* ---- form_filler._try_fill_card_iframes: the driver's browsing context
    iframes,            \* the iframe elements of the top-level document, in order
    context,            \* the driver's context: <<>> is the top-level document, <<k>> is inside frame k
    ifI,                \* the loop index of `for i, frame in enumerate(frames)` (1-based)
    ifPc,               \* position in _try_fill_card_iframes and the steps after it
    ifFilled,           \* the local counter `filled`
    ifLog,              \* the context before each frame inspection and in each later step
    exit_failed         \* history: some switch back to the top-level document raised twice

iframeVars == <<iframes, context, ifI, ifPc, ifFilled, ifLog, exit_failed>>

\* the variables of the checkout helpers and of the waits
restVars == <<fillVars, submitVars, waitVars, sleepVars, bannerVars, fieldVars, sizeVars, expiryVars, extractVars, similarVars, driverVars, advanceVars, iframeVars>>

vars == <<monVars, ctaVars, fpbVars, restVars>>

\* the variables a specification leaves alone
notMon == <<ctaVars, fpbVars, restVars>>
notCta == <<monVars, fpbVars, restVars>>
notFpb == <<monVars, ctaVars, restVars>>
notFill == <<monVars, ctaVars, fpbVars, submitVars, waitVars, sleepVars, bannerVars, fieldVars, sizeVars, expiryVars, extractVars, similarVars, driverVars, advanceVars, iframeVars>>
notSubmit == <<monVars, ctaVars, fpbVars, fillVars, waitVars, sleepVars, bannerVars, fieldVars, sizeVars, expiryVars, extractVars, similarVars, driverVars, advanceVars, iframeVars>>
notWait == <<monVars, ctaVars, fpbVars, fillVars, submitVars, sleepVars, bannerVars, fieldVars, sizeVars, expiryVars, extractVars, similarVars, driverVars, advanceVars, iframeVars>>
notSleep == <<monVars, ctaVars, fpbVars, fillVars, submitVars, waitVars, bannerVars, fieldVars, sizeVars, expiryVars, extractVars, similarVars, driverVars, advanceVars, iframeVars>>
notBanner == <<monVars, ctaVars, fpbVars, fillVars, submitVars, waitVars, sleepVars, fieldVars, sizeVars, expiryVars, extractVars, similarVars, driverVars, advanceVars, iframeVars>>
notField == <<monVars, ctaVars, fpbVars, fillVars, submitVars, waitVars, sleepVars, bannerVars, sizeVars, expiryVars, extractVars, similarVars, driverVars, advanceVars, iframeVars>>
notSize == <<monVars, ctaVars, fpbVars, fillVars, submitVars, waitVars, sleepVars, bannerVars, fieldVars, expiryVars, extractVars, similarVars, driverVars, advanceVars, iframeVars>>
notExpiry == <<monVars, ctaVars, fpbVars, fillVars, submitVars, waitVars, sleepVars, bannerVars, fieldVars, sizeVars, extractVars, similarVars, driverVars, advanceVars, iframeVars>>
notExtract == <<monVars, ctaVars, fpbVars, fillVars, submitVars, waitVars, sleepVars, bannerVars, fieldVars, sizeVars, expiryVars, similarVars, driverVars, advanceVars, iframeVars>>
notSimilar == <<monVars, ctaVars, fpbVars, fillVars, submitVars, waitVars, sleepVars, bannerVars, fieldVars, sizeVars, expiryVars, extractVars, driverVars, advanceVars, iframeVars>>
notDriver == <<monVars, ctaVars, fpbVars, fillVars, submitVars, waitVars, sleepVars, bannerVars, fieldVars, sizeVars, expiryVars, extractVars, similarVars, advanceVars, iframeVars>>
notAdvance == <<monVars, ctaVars, fpbVars, fillVars, submitVars, waitVars, sleepVars, bannerVars, fieldVars, sizeVars, expiryVars, extractVars, similarVars, driverVars, iframeVars>>
notIframe == <<monVars, ctaVars, fpbVars, fillVars, submitVars, waitVars, sleepVars, bannerVars, fieldVars, sizeVars, expiryVars, extractVars, similarVars, driverVars, advanceVars>>

\* best_match = None
NoMatch == [gen |-> 0, pass |-> 0, idx |-> 0, score |-> 0]

\* the state of a part that a specification does not exercise
FillIdle ==
    /\ ffPc = "off"
    /\ ffLog = <<>>
    /\ ffRaised = FALSE

SubmitIdle ==
    /\ sbDoc = <<>>
    /\ sbPc = "off"
    /\ sbScored = <<>>
    /\ sbI = 1
    /\ sbLog = <<>>
    /\ sbResult = "running"

WaitIdle ==
    /\ wKind = "none"
    /\ strategy = "pause"
    /\ total = 0
    /\ poll = 0
    /\ waited = 0
    /\ now = 0
    /\ wPc = "off"
    /\ wOps = {}
    /\ wResult = "running"

SleepIdle ==
    /\ retry_delay = 0
    /\ retry_jitter = 0
    /\ sleep_site = "off"
    /\ sleep_s = 0

BannerIdle ==
    /\ bnDoc = <<>>
    /\ bnSetting = "absent"
    /\ bnPc = "off"
    /\ bnI = 1
    /\ dismissed = 0
    /\ bnLog = <<>>
    /\ bnResult = "running"

FieldIdle ==
    /\ cc_keys = {}
    /\ page_inputs = {}
    /\ frame_inputs = {}
    /\ fkPc = "off"
    /\ cleared_inputs = {}
    /\ written_inputs = {}
    /\ counted = {}
    /\ filled = 0

SizeIdle ==
    /\ szDoc = <<>>
    /\ szToken = ""
    /\ szPc = "off"
    /\ szI = 1
    /\ szLog = <<>>
    /\ szResult = "running"

ExpiryIdle ==
    /\ expiry_in = <<>>
    /\ expiry_out = <<>>
    /\ expiry_again = <<>>
    /\ exPc = "off"

ExtractIdle ==
    /\ blocks = <<>>
    /\ limit = 0
    /\ excPc = "off"
    /\ exI = 1
    /\ candidates = <<>>

SimilarIdle ==
    /\ name_a = <<>>
    /\ name_b = <<>>
    /\ score_ab = <<0, 1>>
    /\ score_ba = <<0, 1>>
    /\ score_aa = <<0, 1>>
    /\ simPc = "off"

DriverIdle ==
    /\ use_undetected = FALSE
    /\ fell_back_to_standard = FALSE
    /\ attempts = 0
    /\ last_error = "None"
    /\ launches = <<>>
    /\ cdPc = "off"
    /\ cdResult = "running"

AdvanceIdle ==
    /\ adv_page = <<>>
    /\ advPc = "off"
    /\ advLog = <<>>

IframeIdle ==
    /\ iframes = <<>>
    /\ context = <<>>
    /\ ifI = 0
    /\ ifPc = "off"
    /\ ifFilled = 0
    /\ ifLog = <<>>
    /\ exit_failed = FALSE

RestIdle == FillIdle /\ SubmitIdle /\ WaitIdle /\ SleepIdle /\ BannerIdle /\ FieldIdle /\ SizeIdle /\ ExpiryIdle /\ ExtractIdle /\ SimilarIdle /\ DriverIdle /\ AdvanceIdle /\ IframeIdle

CtaIdle ==
    /\ doc = <<>>
    /\ cardLo = 1 /\ cardHi = 0
    /\ wrapLo = 1 /\ wrapHi = 0
    /\ ctaPc = "off"
    /\ inline_btn = 0
    /\ near_btn = 0
    /\ add_btn = 0
    /\ buy_ctas = <<>>

FpbIdle ==
    /\ page0 = [cards |-> <<>>, outside |-> <<>>, hasName |-> FALSE]
    /\ settings = [allow_global_cta_when_name_found |-> TRUE,
                   allow_global_cta_always |-> FALSE,
                   dismiss_banners |-> TRUE, max_scrolls |-> 0,
                   min_match_score |-> min_score_default]
    /\ cc_info = FALSE
    /\ preferred_size = FALSE
    /\ fpc = "off"
    /\ page = page0
    /\ gen = 0
    /\ pass_i = 0
    /\ best_score = 0
    /\ best_match = NoMatch
    /\ fresult = "running"
    /\ clicks = <<>>
    /\ checkoutCalls = 0
    /\ fillCalls = 0
    /\ scrolls = 0
    /\ scored = <<>>

(***************************************************************************)
(* monitor._expand_monitor_urls.  A URL is a sequence of path segments;    *)
(* str.replace rewrites every occurrence of a segment.                     *)
(***************************************************************************)
Segments == {"/launch/upcoming", "/launch/in-stock", "/t/shoe"}

Urls == UNION {[1..n -> Segments] : n \in 1..MaxUrlSegs}

InUrl(seg, u) == \E i \in DOMAIN u : u[i] = seg

ReplaceSeg(u, from, to) == [i \in DOMAIN u |-> IF u[i] = from THEN to ELSE u[i]]

InList(x, list) == \E i \in DOMAIN list : list[i] = x

AppendNew(list, cand) ==
    IF cand # <<>> /\ ~InList(cand, list) THEN Append(list, cand) ELSE list

expand_monitor_urls(u) ==
    LET instock_variant ==
            IF InUrl("/launch/upcoming", u)
            THEN ReplaceSeg(u, "/launch/upcoming", "/launch/in-stock") ELSE <<>>
        upcoming_variant ==
            IF InUrl("/launch/in-stock", u)
            THEN ReplaceSeg(u, "/launch/in-stock", "/launch/upcoming") ELSE <<>>
    IN  AppendNew(AppendNew(<<u>>, upcoming_variant), instock_variant)

urls_to_monitor == expand_monitor_urls(url)

NumUrls == Len(urls_to_monitor)

(***************************************************************************)
(* Helpers of the orchestrator.                                            *)
(***************************************************************************)
BoolStr(b) == IF b THEN "True" ELSE "False"

\* pages the browser may show after a driver.get(target) that did not raise:
\* the target, or wherever the site redirected to
PagesAfterGet(target) == 0..NumUrls

\* monitor._detect_challenge followed by monitor._handle_detected_challenge:
\* the handler only sleeps; the challenge may or may not have cleared by then
HandledChallenge(ch) == IF ch THEN BOOLEAN ELSE {FALSE}

\* an operation is recorded once a purchase has been initiated
Record(ops) == IF purchase_initiated THEN afterOps \cup ops ELSE afterOps

\* `continue` of the for loop, or the end of the cycle after the last URL
NextUrlPc == IF idx < NumUrls THEN "url" ELSE "cycle_end"
NextUrlIdx == IF idx < NumUrls THEN idx + 1 ELSE idx

MonInit ==
    /\ url \in Urls
    /\ stop_on_success \in BOOLEAN
    /\ close_on_finish \in BOOLEAN
    /\ respect_robots \in BOOLEAN
    /\ block_on_robots \in BOOLEAN
    /\ pc = "robots"
    /\ cycle = 0
    /\ idx = 1
    /\ purchase_initiated = FALSE
    /\ current_url = 0
    /\ challenge = FALSE
    /\ browser = "none"
    /\ pending = "none"
    /\ result = "running"
    /\ fpbTrueCount = 0
    /\ afterOps = {}
    /\ interrupted = "none"
    /\ undetected = FALSE
    /\ quit_called = FALSE
    /\ clicked_in_call = FALSE

MonIdle ==
    /\ url = <<"/t/shoe">>
    /\ stop_on_success = TRUE
    /\ close_on_finish = FALSE
    /\ respect_robots = FALSE
    /\ block_on_robots = TRUE
    /\ pc = "off"
    /\ cycle = 0
    /\ idx = 1
    /\ purchase_initiated = FALSE
    /\ current_url = 0
    /\ challenge = FALSE
    /\ browser = "none"
    /\ pending = "none"
    /\ result = "running"
    /\ fpbTrueCount = 0
    /\ afterOps = {}
    /\ interrupted = "none"
    /\ undetected = FALSE
    /\ quit_called = FALSE
    /\ clicked_in_call = FALSE

Init == MonInit /\ CtaIdle /\ FpbIdle /\ RestIdle

(***************************************************************************)
(* check_product_and_buy, one action per step of the function.             *)
(***************************************************************************)
\* leave through the `finally` clause with a value to return or raise
Leave(value) ==
    /\ pending' = value
    /\ pc' = "finally"

\* `continue`: the next URL of the cycle, or the end of the cycle
Continue ==
    /\ pc' = NextUrlPc
    /\ idx' = NextUrlIdx

\* lines 243-249: optional robots.txt compliance, before any driver exists
RobotsCheck ==
    /\ pc = "robots"
    /\ \E allowed \in [1..NumUrls -> BOOLEAN] :
          IF respect_robots /\ block_on_robots /\ (\E i \in 1..NumUrls : ~allowed[i])
          THEN /\ result' = "False"
               /\ pc' = "done"
          ELSE /\ pc' = "create"
               /\ UNCHANGED result
    /\ UNCHANGED <<monInputs, cycle, idx, purchase_initiated, current_url, challenge,
                   browser, pending, fpbTrueCount, afterOps, interrupted>>
    /\ UNCHANGED <<undetected, quit_called, clicked_in_call>>
    /\ UNCHANGED notMon

\* line 250: create_driver returns a driver or raises RuntimeError to the caller
CreateDriver ==
    /\ pc = "create"
    /\ \/ /\ browser' = "open"
          /\ pc' = "initial_get"
          /\ UNCHANGED result
       \/ /\ result' = "RuntimeError"
          /\ pc' = "done"
          /\ UNCHANGED browser
    /\ UNCHANGED <<monInputs, cycle, idx, purchase_initiated, current_url, challenge,
                   pending, fpbTrueCount, afterOps, interrupted>>
    /\ UNCHANGED <<undetected, quit_called, clicked_in_call>>
    /\ UNCHANGED notMon

\* lines 253-257: the initial load of the primary URL
InitialGet ==
    /\ pc = "initial_get"
    /\ \/ /\ current_url' \in PagesAfterGet(1)
          /\ challenge' \in BOOLEAN
          /\ pc' = "initial_settle"
          /\ UNCHANGED <<pending, interrupted>>
       \/ /\ Leave("False")
          /\ UNCHANGED <<current_url, challenge, interrupted>>
       \/ /\ Leave("KeyboardInterrupt")
          /\ interrupted' = "preloop"
          /\ UNCHANGED <<current_url, challenge>>
    /\ UNCHANGED <<monInputs, cycle, idx, purchase_initiated, browser, result,
                   fpbTrueCount, afterOps>>
    /\ undetected' = (pc' = "initial_settle")
    /\ UNCHANGED <<quit_called, clicked_in_call>>
    /\ UNCHANGED notMon

\* lines 259-263: settle, detect a challenge and handle it
InitialSettle ==
    /\ pc = "initial_settle"
    /\ \/ /\ challenge' \in HandledChallenge(challenge)
          /\ pc' = "cycle"
          /\ UNCHANGED <<pending, interrupted>>
       \/ /\ Leave("KeyboardInterrupt")
          /\ interrupted' = "preloop"
          /\ UNCHANGED challenge
    /\ UNCHANGED <<monInputs, cycle, idx, purchase_initiated, current_url, browser,
                   result, fpbTrueCount, afterOps>>
    /\ undetected' = IF pc' = "cycle" THEN FALSE ELSE undetected
    /\ UNCHANGED <<quit_called, clicked_in_call>>
    /\ UNCHANGED notMon

\* lines 267-271: the top of `while True`
CycleStart ==
    /\ pc = "cycle"
    /\ cycle < MaxCycles
    /\ cycle' = cycle + 1
    /\ idx' = 1
    /\ pc' = "url"
    /\ UNCHANGED <<monInputs, purchase_initiated, current_url, challenge, browser,
                   pending, result, fpbTrueCount, afterOps, interrupted>>
    /\ UNCHANGED <<undetected, quit_called, clicked_in_call>>
    /\ UNCHANGED notMon

\* line 274: reading driver.current_url raises; caught at line 323
CurrentUrlRaises ==
    /\ pc = "url"
    /\ pc' = "recover"
    /\ UNCHANGED <<monInputs, cycle, idx, purchase_initiated, current_url, challenge,
                   browser, pending, result, fpbTrueCount, afterOps, interrupted>>
    /\ UNCHANGED <<undetected, quit_called, clicked_in_call>>
    /\ UNCHANGED notMon

\* line 274: the browser already shows the target URL
StayOnPage ==
    /\ pc = "url"
    /\ current_url = idx
    /\ pc' = "gate"
    /\ UNCHANGED <<monInputs, cycle, idx, purchase_initiated, current_url, challenge,
                   browser, pending, result, fpbTrueCount, afterOps, interrupted>>
    /\ UNCHANGED <<undetected, quit_called, clicked_in_call>>
    /\ UNCHANGED notMon

\* lines 274-284: switch to the target URL, settle, detect and handle a challenge
SwitchPage ==
    /\ pc = "url"
    /\ current_url # idx
    /\ \/ /\ current_url' \in PagesAfterGet(idx)
          /\ \E ch \in BOOLEAN : challenge' \in HandledChallenge(ch)
          /\ afterOps' = Record({"get", "settle_sleep"})
          /\ pc' = "gate"
          /\ UNCHANGED <<idx, pending, interrupted>>
       \/ /\ Continue
          /\ afterOps' = Record({"get"})
          /\ UNCHANGED <<current_url, challenge, pending, interrupted>>
       \/ /\ Leave(BoolStr(purchase_initiated))
          /\ interrupted' = "loop"
          /\ afterOps' = Record({"get"})
          /\ UNCHANGED <<idx, current_url, challenge>>
    /\ UNCHANGED <<monInputs, cycle, purchase_initiated, browser, result, fpbTrueCount>>
    /\ undetected' = IF pc' = "gate" THEN FALSE ELSE undetected
    /\ UNCHANGED <<quit_called, clicked_in_call>>
    /\ UNCHANGED notMon

\* the gate of lines 287-289 left out
ScanSkipped_Never == FALSE

\* lines 287-289: the page is not scanned again once a purchase was initiated
ScanSkipped == purchase_initiated

SkipScan ==
    /\ pc = "gate"
    /\ ScanSkipped
    /\ Continue
    /\ afterOps' = Record({"skip_scan"})
    /\ UNCHANGED <<monInputs, cycle, purchase_initiated, current_url, challenge,
                   browser, pending, result, fpbTrueCount, interrupted>>
    /\ UNCHANGED <<undetected, quit_called, clicked_in_call>>
    /\ UNCHANGED notMon

\* the `if initiated:` block left out: the outcome of the scan is ignored
OnInitiated_Ignored ==
    /\ Continue
    /\ UNCHANGED <<purchase_initiated, pending>>

\* the `return True` of line 303 left out: stop_on_success is not honoured
OnInitiated_NoStop ==
    /\ purchase_initiated' = TRUE
    /\ Continue
    /\ UNCHANGED pending

\* lines 299-305: find_product_and_buy returned true
OnInitiated ==
    /\ purchase_initiated' = TRUE
    /\ IF stop_on_success
       THEN /\ Leave("True")
            /\ UNCHANGED idx
       ELSE /\ Continue
            /\ UNCHANGED pending

\* lines 291-305: the call of find_product_and_buy and what follows from its outcome
\* (it returns, raises, or a KeyboardInterrupt ends it: before any buy CTA
\* click, or after one succeeded, during proceed_to_checkout,
\* fill_and_submit_form or the confirmation wait, whose handlers are all
\* `except Exception` and let it pass)
Scan ==
    /\ pc = "gate"
    /\ ~ScanSkipped
    /\ afterOps' = Record({"scan"})
    /\ \/ /\ fpbTrueCount' = IF fpbTrueCount < 2 THEN fpbTrueCount + 1 ELSE 2
          /\ OnInitiated
          /\ current_url' \in {current_url, 0}
          /\ UNCHANGED <<interrupted, clicked_in_call>>
       \/ /\ Continue
          /\ current_url' \in {current_url, 0}
          /\ UNCHANGED <<purchase_initiated, pending, fpbTrueCount, interrupted, clicked_in_call>>
       \/ /\ pc' = "recover"
          /\ current_url' \in {current_url, 0}
          /\ UNCHANGED <<idx, purchase_initiated, pending, fpbTrueCount, interrupted, clicked_in_call>>
       \/ /\ Leave(BoolStr(purchase_initiated))
          /\ interrupted' = "loop"
          /\ current_url' \in {current_url, 0}
          /\ clicked_in_call' \in BOOLEAN
          /\ UNCHANGED <<idx, purchase_initiated, fpbTrueCount>>
    /\ UNCHANGED <<monInputs, cycle, challenge, browser, result>>
    /\ UNCHANGED <<undetected, quit_called>>
    /\ UNCHANGED notMon

\* lines 307-317 with a failing refresh ending the function instead of
\* reaching the handler of line 323
RetryRefresh_FailureExits ==
    /\ pc = "cycle_end"
    /\ ~purchase_initiated
    /\ \/ /\ \E ch \in BOOLEAN : challenge' \in HandledChallenge(ch)
          /\ pc' = "cycle"
          /\ UNCHANGED <<pending, interrupted>>
       \/ /\ Leave("None")
          /\ UNCHANGED <<challenge, interrupted>>
       \/ /\ Leave(BoolStr(purchase_initiated))
          /\ interrupted' = "loop"
          /\ UNCHANGED challenge
    /\ afterOps' = Record({"retry_sleep", "refresh"})
    /\ UNCHANGED <<monInputs, cycle, idx, purchase_initiated, current_url, browser,
                   result, fpbTrueCount>>
    /\ undetected' = IF pc' = "cycle" THEN FALSE ELSE undetected
    /\ UNCHANGED <<quit_called, clicked_in_call>>
    /\ UNCHANGED notMon

\* lines 307-317: no purchase yet: jittered sleep, refresh, settle, challenge check
RetryRefresh ==
    /\ pc = "cycle_end"
    /\ ~purchase_initiated
    /\ \/ /\ \E ch \in BOOLEAN : challenge' \in HandledChallenge(ch)
          /\ pc' = "cycle"
          /\ UNCHANGED <<pending, interrupted>>
       \/ /\ pc' = "recover"
          /\ UNCHANGED <<challenge, pending, interrupted>>
       \/ /\ Leave(BoolStr(purchase_initiated))
          /\ interrupted' = "loop"
          /\ UNCHANGED challenge
    /\ afterOps' = Record({"retry_sleep", "refresh"})
    /\ UNCHANGED <<monInputs, cycle, idx, purchase_initiated, current_url, browser,
                   result, fpbTrueCount>>
    /\ undetected' = IF pc' = "cycle" THEN FALSE ELSE undetected
    /\ UNCHANGED <<quit_called, clicked_in_call>>
    /\ UNCHANGED notMon

\* lines 318-319: a purchase was initiated: idle for post_purchase_idle
PostPurchaseIdle ==
    /\ pc = "cycle_end"
    /\ purchase_initiated
    /\ \/ /\ pc' = "cycle"
          /\ UNCHANGED <<pending, interrupted>>
       \/ /\ Leave(BoolStr(purchase_initiated))
          /\ interrupted' = "loop"
    /\ afterOps' = Record({"idle_sleep"})
    /\ UNCHANGED <<monInputs, cycle, idx, purchase_initiated, current_url, challenge,
                   browser, result, fpbTrueCount>>
    /\ UNCHANGED <<undetected, quit_called, clicked_in_call>>
    /\ UNCHANGED notMon

\* lines 323-332: the handler of `except Exception`: refresh, then sleep 3 s.
\* A KeyboardInterrupt raised inside this handler is not caught by the sibling
\* `except KeyboardInterrupt` clause of the same try statement.
Recover ==
    /\ pc = "recover"
    /\ \/ /\ challenge' \in BOOLEAN
          /\ pc' = "cycle"
          /\ UNCHANGED <<pending, interrupted>>
       \/ /\ Leave("None")
          /\ UNCHANGED <<challenge, interrupted>>
       \/ /\ Leave("KeyboardInterrupt")
          /\ interrupted' = "recovery"
          /\ UNCHANGED challenge
    /\ afterOps' = Record({"refresh"})
    /\ UNCHANGED <<monInputs, cycle, idx, purchase_initiated, current_url, browser,
                   result, fpbTrueCount>>
    /\ undetected' = IF pc' = "cycle" THEN TRUE ELSE undetected
    /\ UNCHANGED <<quit_called, clicked_in_call>>
    /\ UNCHANGED notMon

\* lines 333-340 with the test of close_on_finish left out
Finally_AlwaysQuits ==
    /\ pc = "finally"
    /\ browser' \in {"closed", "open"}
    /\ afterOps' = Record({"quit"})
    /\ result' = pending
    /\ pc' = "done"
    /\ UNCHANGED <<monInputs, cycle, idx, purchase_initiated, current_url, challenge,
                   pending, fpbTrueCount, interrupted>>
    /\ quit_called' = TRUE
    /\ UNCHANGED clicked_in_call
    /\ UNCHANGED undetected
    /\ UNCHANGED notMon

\* lines 333-340: the `finally` clause, then the return or the raise
Finally ==
    /\ pc = "finally"
    /\ IF close_on_finish
       THEN /\ browser' \in {"closed", "open"}
            /\ afterOps' = Record({"quit"})
       ELSE UNCHANGED <<browser, afterOps>>
    /\ result' = pending
    /\ pc' = "done"
    /\ UNCHANGED <<monInputs, cycle, idx, purchase_initiated, current_url, challenge,
                   pending, fpbTrueCount, interrupted>>
    /\ quit_called' = close_on_finish
    /\ UNCHANGED clicked_in_call
    /\ UNCHANGED undetected
    /\ UNCHANGED notMon

Next ==
    \/ RobotsCheck
    \/ CreateDriver
    \/ InitialGet
    \/ InitialSettle
    \/ CycleStart
    \/ CurrentUrlRaises
    \/ StayOnPage
    \/ SwitchPage
    \/ SkipScan
    \/ Scan
    \/ RetryRefresh
    \/ PostPurchaseIdle
    \/ Recover
    \/ Finally

Spec == Init /\ [][Next]_vars

(***************************************************************************)
(* Elements and text matching.                                             *)
(*                                                                         *)
(* A text is the sequence of its lower-cased words.  A pattern written     *)
(* with \b in the source matches whole words; a pattern searched with     *)
(* re.search without \b, or with `in`, also matches inside a word: its    *)
(* last word may begin a word of the text.                                 *)
(***************************************************************************)
\* <<p, w>>: the pattern word p is a proper prefix of the word w of the
\* vocabulary; no word of the vocabulary ends with, or encloses, a pattern word
ProperPrefixes == {<<"buy", "buyers">>}

\* re.search(r"\bpat\b", text)
HasBounded(pat, text) ==
    \E i \in 1..(Len(text) - Len(pat) + 1) :
        \A k \in 1..Len(pat) : text[i + k - 1] = pat[k]

\* re.search(pat, text) for a pattern without \b, and `pat in text`
HasRaw(pat, text) ==
    \E i \in 1..(Len(text) - Len(pat) + 1) :
        \A k \in 1..Len(pat) :
            \/ text[i + k - 1] = pat[k]
            \/ k = Len(pat) /\ <<pat[k], text[i + k - 1]>> \in ProperPrefixes

AnyRaw(pats, text) == \E p \in pats : HasRaw(p, text)
AnyBounded(pats, text) == \E p \in pats : HasBounded(p, text)

\* what a button or link of the page looks like: tag, text, href
Shapes ==
    { [tag |-> "button", txt |-> <<"add", "to", "bag">>,           href |-> <<>>],
      [tag |-> "a",      txt |-> <<"buy", "now">>,                 href |-> <<"cart">>],
      [tag |-> "button", txt |-> <<"sold", "out">>,                href |-> <<>>],
      [tag |-> "button", txt |-> <<"notify", "me", "to", "buy">>,  href |-> <<>>],
      [tag |-> "a",      txt |-> <<"details">>,                    href |-> <<"product">>],
      [tag |-> "a",      txt |-> <<"buyers", "guide">>,            href |-> <<"help">>] }

\* an element: a shape, whether is_displayed() holds, and whether it has a
\* footer-like ancestor (a footer tag or a class containing 'footer')
Elements ==
    { [tag |-> s.tag, txt |-> s.txt, href |-> s.href, displayed |-> d, footer |-> f] :
        s \in Shapes, d \in BOOLEAN, f \in BOOLEAN }

\* c.get_attribute("outerHTML"): the tag, the attributes, the text
outerHTML(e) == <<e.tag, "|">> \o e.href \o <<"|">> \o e.txt

Docs == UNION {[1..n -> Elements] : n \in 0..MaxDocEls}

\* the elements lo..hi of the document as a list of indices
Range(lo, hi) == [k \in 1..(hi - lo + 1) |-> lo + k - 1]

MinOf(S) == CHOOSE x \in S : \A y \in S : x <= y

(***************************************************************************)
(* ai_detector: the four functions that pick a buy CTA.                    *)
(***************************************************************************)
\* line 70
find_buy_button_in_patterns ==
    { <<"add", "to", "bag">>, <<"add", "to", "cart">>, <<"add", "to", "basket">>,
      <<"buy", "now">>, <<"buy">>, <<"shop", "now">>, <<"checkout">>, <<"purchase">> }

\* the fallback of lines 72-75 left out
find_buy_button_in_NoFallback(d, sub) ==
    LET hits == {k \in 1..Len(sub) :
                    AnyRaw(find_buy_button_in_patterns, d[sub[k]].txt)}
    IN  IF hits # {} THEN sub[MinOf(hits)] ELSE 0

\* lines 63-78: sub lists the button and link elements of the subtree
find_buy_button_in(d, sub) ==
    LET hits == {k \in 1..Len(sub) :
                    AnyRaw(find_buy_button_in_patterns, d[sub[k]].txt)}
        shown == {k \in 1..Len(sub) : d[sub[k]].displayed}
    IN  IF hits # {} THEN sub[MinOf(hits)]
        ELSE IF shown # {} THEN sub[MinOf(shown)]
        ELSE 0

\* lines 81-95: ancestors lists the subtrees of the first max_ancestors ancestors
find_buy_button_near(d, ancestors) ==
    LET good == {a \in 1..Len(ancestors) :
                    \E btn \in {find_buy_button_in(d, ancestors[a])} :
                        btn # 0 /\ d[btn].displayed}
    IN  CHOOSE near \in 0..Len(d) :
            \E g \in {good} :
                near = IF g # {} THEN find_buy_button_in(d, ancestors[MinOf(g)]) ELSE 0

\* lines 163-166
find_global_add_to_cart_patterns ==
    { <<"add", "to", "bag">>, <<"add", "to", "cart">>, <<"add", "to", "basket">>,
      <<"buy", "now">>, <<"buy", "-">>, <<"buy">>, <<"checkout">>, <<"purchase">>,
      <<"add">> }

\* lines 160-182
find_global_add_to_cart(d) ==
    LET hits == {i \in 1..Len(d) :
                    /\ d[i].displayed
                    /\ \/ AnyRaw(find_global_add_to_cart_patterns, d[i].txt)
                       \/ AnyRaw(find_global_add_to_cart_patterns, outerHTML(d[i]))}
    IN  IF hits # {} THEN MinOf(hits) ELSE 0

\* lines 187-191
find_global_buy_ctas_patterns ==
    { <<"add", "to", "bag">>, <<"add", "to", "cart">>, <<"add", "to", "basket">>,
      <<"buy", "now">>, <<"buy">>, <<"checkout">>, <<"purchase">>,
      <<"view", "bag">>, <<"view", "cart">>, <<"go", "to", "cart">> }

\* lines 193-197
find_global_buy_ctas_deny ==
    { <<"notify", "me">>, <<"coming", "soon">>, <<"sold", "out">>,
      <<"out", "of", "stock">>, <<"payment", "options">>, <<"payment", "methods">>,
      <<"help">>, <<"faq">>, <<"privacy">>, <<"terms">>, <<"learn", "more">>,
      <<"sign", "up">>, <<"join">>, <<"notify">> }

\* lines 202-210: the test an element passes to be appended to ctalist
IsGlobalBuyCta(e) ==
    /\ e.displayed
    /\ ~(\/ AnyRaw(find_global_buy_ctas_deny, e.txt)
         \/ AnyRaw(find_global_buy_ctas_deny, outerHTML(e))
         \/ AnyRaw(find_global_buy_ctas_deny, e.href))
    /\ \/ AnyBounded(find_global_buy_ctas_patterns, e.txt)
       \/ AnyBounded(find_global_buy_ctas_patterns, outerHTML(e))

RECURSIVE SelectIndices(_, _)
\* the indices i >= from of d with IsGlobalBuyCta(d[i]), in document order
SelectIndices(d, from) ==
    IF from > Len(d) THEN <<>>
    ELSE IF IsGlobalBuyCta(d[from]) THEN <<from>> \o SelectIndices(d, from + 1)
    ELSE SelectIndices(d, from + 1)

\* lines 185-215
find_global_buy_ctas(d) == SelectIndices(d, 1)

(***************************************************************************)
(* SpecCta: the four functions applied to every bounded document.          *)
(***************************************************************************)
\* ancestors[:max_ancestors] of the card: html, body, then the third ancestor
CardAncestors == <<Range(1, Len(doc)), Range(1, Len(doc)), Range(wrapLo, wrapHi)>>

CtaInit ==
    /\ doc \in Docs
    /\ cardLo \in 1..(Len(doc) + 1)
    /\ cardHi \in (cardLo - 1)..Len(doc)
    /\ wrapLo \in 1..cardLo
    /\ wrapHi \in cardHi..Len(doc)
    /\ ctaPc = "inline"
    /\ inline_btn = 0
    /\ near_btn = 0
    /\ add_btn = 0
    /\ buy_ctas = <<>>

ApplyFindBuyButtonIn ==
    /\ ctaPc = "inline"
    /\ inline_btn' = find_buy_button_in(doc, Range(cardLo, cardHi))
    /\ ctaPc' = "near"
    /\ UNCHANGED <<ctaInputs, near_btn, add_btn, buy_ctas>>
    /\ UNCHANGED notCta

ApplyFindBuyButtonNear ==
    /\ ctaPc = "near"
    /\ near_btn' = find_buy_button_near(doc, CardAncestors)
    /\ ctaPc' = "add"
    /\ UNCHANGED <<ctaInputs, inline_btn, add_btn, buy_ctas>>
    /\ UNCHANGED notCta

ApplyFindGlobalAddToCart ==
    /\ ctaPc = "add"
    /\ add_btn' = find_global_add_to_cart(doc)
    /\ ctaPc' = "ctas"
    /\ UNCHANGED <<ctaInputs, inline_btn, near_btn, buy_ctas>>
    /\ UNCHANGED notCta

ApplyFindGlobalBuyCtas ==
    /\ ctaPc = "ctas"
    /\ buy_ctas' = find_global_buy_ctas(doc)
    /\ ctaPc' = "done"
    /\ UNCHANGED <<ctaInputs, inline_btn, near_btn, add_btn>>
    /\ UNCHANGED notCta

CtaNext ==
    \/ ApplyFindBuyButtonIn
    \/ ApplyFindBuyButtonNear
    \/ ApplyFindGlobalAddToCart
    \/ ApplyFindGlobalBuyCtas

InitCta == MonIdle /\ CtaInit /\ FpbIdle /\ RestIdle

SpecCta == InitCta /\ [][CtaNext]_vars

(***************************************************************************)
(* The page find_product_and_buy works on.                                 *)
(*                                                                         *)
(* A page holds candidate cards (what extract_candidate_cards returns, in  *)
(* document order, each with its similarity to the target in tenths), the  *)
(* buttons and links outside every card, and whether page_source contains  *)
(* every token of the product name.                                        *)
(***************************************************************************)
El(tag, txt, href) ==
    [tag |-> tag, txt |-> txt, href |-> href, displayed |-> TRUE, footer |-> FALSE]

AddToBag == El("button", <<"add", "to", "bag">>, <<>>)
SoldOut == El("button", <<"sold", "out">>, <<>>)
ProductLink == El("a", <<"details">>, <<"product">>)
\* elements that are clicked but are no button or link of the page model
CardImage == El("img", <<>>, <<>>)
Banner == El("button", <<"accept", "cookies">>, <<>>)
SizeOption == El("label", <<"10">>, <<>>)
CheckoutCta == El("a", <<"checkout">>, <<"checkout">>)

\* similarity scores the extractor's candidates can have, in tenths: just
\* below the threshold and at it
Scores == {min_score_default - 1, min_score_default}
\* values of the min_match_score setting, in tenths
MinScores == {min_score_default}

\* a card: what it holds besides its text (an image only, an "Add to Bag"
\* button, a "Sold Out" button, a link to the product page) and its score
CardKinds == {"img", "add", "sold", "link"}
Cards == [kind : CardKinds, score : Scores]

CardBtns(card) ==
    CASE card.kind = "add" -> <<AddToBag>>
      [] card.kind = "sold" -> <<SoldOut>>
      [] card.kind = "link" -> <<ProductLink>>
      [] OTHER -> <<>>

Pages ==
    [cards : UNION {[1..n -> Cards] : n \in 0..MaxCards},
     outside : {<<>>, <<AddToBag>>},
     hasName : BOOLEAN]

\* pages a click on a card's link or image may lead to: a product page, whose
\* buttons and links lie outside every candidate block
PdpPages == {p \in Pages : p.cards = <<>>}

RECURSIVE CardsBtns(_, _)
\* the buttons and links of the cards from the i-th on, in document order
CardsBtns(cards, i) ==
    IF i > Len(cards) THEN <<>> ELSE CardBtns(cards[i]) \o CardsBtns(cards, i + 1)

\* driver.find_elements(By.XPATH, "//button | //a")
DocOf(p) == CardsBtns(p.cards, 1) \o p.outside

\* the places of the c-th card's buttons and links in DocOf(p)
CardLo(p, c) == Len(DocOf(p)) - Len(p.outside) - Len(CardsBtns(p.cards, c)) + 1
CardHi(p, c) == CardLo(p, c) + Len(CardBtns(p.cards[c])) - 1

(***************************************************************************)
(* find_product_and_buy: helpers.                                          *)
(***************************************************************************)
RECURSIVE ScoreCards_LastWins(_, _, _, _, _, _)
\* lines 401-405 comparing with >= instead of >: of equal scores the last wins
ScoreCards_LastWins(cards, i, bs, bm, g, ps) ==
    IF i > Len(cards) THEN [score |-> bs, match |-> bm]
    ELSE IF cards[i].score >= bs
         THEN ScoreCards_LastWins(cards, i + 1, cards[i].score,
                         [gen |-> g, pass |-> ps, idx |-> i, score |-> cards[i].score],
                         g, ps)
         ELSE ScoreCards_LastWins(cards, i + 1, bs, bm, g, ps)

RECURSIVE ScoreCards(_, _, _, _, _, _)
\* lines 401-405: the running maximum over the candidates of one pass
ScoreCards(cards, i, bs, bm, g, ps) ==
    IF i > Len(cards) THEN [score |-> bs, match |-> bm]
    ELSE IF cards[i].score > bs
         THEN ScoreCards(cards, i + 1, cards[i].score,
                         [gen |-> g, pass |-> ps, idx |-> i, score |-> cards[i].score],
                         g, ps)
         ELSE ScoreCards(cards, i + 1, bs, bm, g, ps)

\* lines 401-402: the candidates of one pass, as the loop scores them
Scored(cards, g, ps) ==
    [i \in 1..Len(cards) |-> [gen |-> g, pass |-> ps, idx |-> i, score |-> cards[i].score]]

\* lines 254-260
page_contains_target(p) == p.hasName

\* the gate of line 411 ignoring the page text
GlobalAllowed_Always == TRUE

\* line 411: whether the global buy path is attempted in a pass
GlobalAllowed ==
    \/ settings.allow_global_cta_always
    \/ settings.allow_global_cta_when_name_found /\ page_contains_target(page)

\* line 415 comparing with > instead of >=
MatchedGate_Strict == best_match # NoMatch /\ best_score > settings.min_match_score

\* line 415 without the threshold
MatchedGate_NoThreshold == best_match # NoMatch

\* line 415: whether the matched-card path is entered in a pass
MatchedGate == best_match # NoMatch /\ best_score >= settings.min_match_score

\* the reference held in best_match was extracted before a navigation:
\* every call on it raises StaleElementReferenceException
Stale == best_match.gen # gen

\* the card best_match refers to
MatchedCard == page.cards[best_match.idx]

\* an entry of the click log: what safe_click was called with, what it
\* answered, and the scan pass (counted from 1) it was called in
Click(desc, el, ok) == [desc |-> desc, el |-> el, ok |-> ok, pass |-> pass_i + 1]

\* the clicks of the log that safe_click reported as failed
FailedClicks == {k \in 1..Len(clicks) : ~clicks[k].ok}

\* what safe_click (utils.py lines 22-39) may answer for the next click
ClickOutcomes ==
    IF Cardinality(FailedClicks) < MaxFailedClicks THEN BOOLEAN ELSE {TRUE}

\* what select_size_on_pdp (lines 120-158) may do: nothing without a preferred
\* size; else no element matches, or a click on a matching element
SizeClicks ==
    IF preferred_size
    THEN {<<>>} \cup {<<Click("select_size", SizeOption, ok)>> : ok \in ClickOutcomes}
    ELSE {<<>>}

\* what dismiss_banners (lines 218-251) may do: nothing when the setting is
\* False; else no banner, or a click on one
BannerClicks ==
    IF settings.dismiss_banners
    THEN {<<>>} \cup {<<Click("dismiss_banner", Banner, ok)>> : ok \in ClickOutcomes}
    ELSE {<<>>}

FpbInit ==
    /\ page0 \in Pages
    /\ settings \in [allow_global_cta_when_name_found : BOOLEAN,
                     allow_global_cta_always : BOOLEAN,
                     dismiss_banners : BOOLEAN,
                     max_scrolls : 0..MaxScrolls,
                     min_match_score : MinScores]
    /\ cc_info \in BOOLEAN
    /\ preferred_size \in BOOLEAN
    /\ fpc = "start"
    /\ page = page0
    /\ gen = 1
    /\ pass_i = 0
    /\ best_score = 0
    /\ best_match = NoMatch
    /\ fresult = "running"
    /\ clicks = <<>>
    /\ checkoutCalls = 0
    /\ fillCalls = 0
    /\ scrolls = 0
    /\ scored = <<>>

(***************************************************************************)
(* find_product_and_buy, one action per step.                              *)
(***************************************************************************)
\* lines 383-388
FpbDismissBanners ==
    /\ fpc = "start"
    /\ \E cs \in BannerClicks : clicks' = clicks \o cs
    /\ fpc' = "pass"
    /\ UNCHANGED <<fpbInputs, page, gen, pass_i, best_score, best_match, scored, fresult,
                   checkoutCalls, fillCalls, scrolls>>
    /\ UNCHANGED notFpb

\* lines 397-413: extract the candidates, score them, decide on the global path
FpbScanPass ==
    /\ fpc = "pass"
    /\ pass_i < settings.max_scrolls
    /\ LET r == ScoreCards(page.cards, 1, best_score, best_match, gen, pass_i + 1)
       IN  /\ best_score' = r.score
           /\ best_match' = r.match
    /\ scored' = scored \o Scored(page.cards, gen, pass_i + 1)
    /\ fpc' = IF GlobalAllowed THEN "global" ELSE "matched"
    /\ UNCHANGED <<fpbInputs, page, gen, pass_i, fresult, clicks, checkoutCalls,
                   fillCalls, scrolls>>
    /\ UNCHANGED notFpb

\* line 35: find_elements raises an error that is no WebDriverException (the
\* session is lost); extract_candidate_cards does not catch it
FpbExtractRaises ==
    /\ fpc = "pass"
    /\ pass_i < settings.max_scrolls
    /\ fresult' = "Exception"
    /\ fpc' = "done"
    /\ UNCHANGED <<fpbInputs, page, gen, pass_i, best_score, best_match, scored, clicks,
                   checkoutCalls, fillCalls, scrolls>>
    /\ UNCHANGED notFpb

\* lines 527-528: the passes are used up
FpbReturnFalse ==
    /\ fpc = "pass"
    /\ pass_i >= settings.max_scrolls
    /\ fresult' = "False"
    /\ fpc' = "done"
    /\ UNCHANGED <<fpbInputs, page, gen, pass_i, best_score, best_match, scored, clicks,
                   checkoutCalls, fillCalls, scrolls>>
    /\ UNCHANGED notFpb

\* lines 263-288: attempt_global_buy_flow up to its click
FpbGlobalBuy ==
    /\ fpc = "global"
    /\ \E sz \in SizeClicks :
          LET buttons == find_global_buy_ctas(DocOf(page))
          IN  IF buttons = <<>>
              THEN /\ clicks' = clicks \o sz
                   /\ fpc' = "matched"
              ELSE \E ok \in ClickOutcomes :
                      /\ clicks' = clicks \o sz \o
                            <<Click("global_buy_any", DocOf(page)[buttons[1]], ok)>>
                      /\ fpc' = IF ok THEN "checkout" ELSE "matched"
    /\ UNCHANGED <<fpbInputs, page, gen, pass_i, best_score, best_match, scored, fresult,
                   checkoutCalls, fillCalls, scrolls>>
    /\ UNCHANGED notFpb

\* lines 415, 516-519: no match at or above the threshold in this pass
FpbNoMatch ==
    /\ fpc = "matched"
    /\ ~MatchedGate
    /\ fpc' = "scroll"
    /\ UNCHANGED <<fpbInputs, page, gen, pass_i, best_score, best_match, scored, fresult,
                   clicks, checkoutCalls, fillCalls, scrolls>>
    /\ UNCHANGED notFpb

\* lines 415-435 without the return of line 435
FpbInline_NoReturn ==
    /\ fpc = "matched"
    /\ MatchedGate
    /\ LET d == DocOf(page)
           buy_btn == IF Stale THEN 0
                      ELSE find_buy_button_in(d, Range(CardLo(page, best_match.idx),
                                                       CardHi(page, best_match.idx)))
       IN  IF buy_btn = 0
           THEN /\ fpc' = "near"
                /\ UNCHANGED clicks
           ELSE \E ok \in ClickOutcomes :
                   /\ clicks' = Append(clicks, Click("inline_buy", d[buy_btn], ok))
                   /\ fpc' = "near"
    /\ UNCHANGED <<fpbInputs, page, gen, pass_i, best_score, best_match, scored, fresult,
                   checkoutCalls, fillCalls, scrolls>>
    /\ UNCHANGED notFpb

\* lines 415-435: the CTA inside the matched block
FpbInline ==
    /\ fpc = "matched"
    /\ MatchedGate
    /\ LET d == DocOf(page)
           buy_btn == IF Stale THEN 0
                      ELSE find_buy_button_in(d, Range(CardLo(page, best_match.idx),
                                                       CardHi(page, best_match.idx)))
       IN  IF buy_btn = 0
           THEN /\ fpc' = "near"
                /\ UNCHANGED clicks
           ELSE \E ok \in ClickOutcomes :
                   /\ clicks' = Append(clicks, Click("inline_buy", d[buy_btn], ok))
                   /\ fpc' = IF ok THEN "checkout" ELSE "near"
    /\ UNCHANGED <<fpbInputs, page, gen, pass_i, best_score, best_match, scored, fresult,
                   checkoutCalls, fillCalls, scrolls>>
    /\ UNCHANGED notFpb

\* lines 437-451: a CTA near the block; the first ancestors are html and body
FpbNear ==
    /\ fpc = "near"
    /\ LET d == DocOf(page)
           all == Range(1, Len(d))
       IN  \E near \in {IF Stale THEN 0 ELSE find_buy_button_near(d, <<all, all, all>>)} :
              IF near = 0
              THEN /\ fpc' = "pdp"
                   /\ UNCHANGED clicks
              ELSE \E ok \in ClickOutcomes :
                      /\ clicks' = Append(clicks, Click("near_buy", d[near], ok))
                      /\ fpc' = IF ok THEN "checkout" ELSE "pdp"
    /\ UNCHANGED <<fpbInputs, page, gen, pass_i, best_score, best_match, scored, fresult,
                   checkoutCalls, fillCalls, scrolls>>
    /\ UNCHANGED notFpb

\* lines 97-118, 454: open_pdp_from_card clicks the card's first absolute link,
\* else its image, and answers True whether or not the click succeeded
FpbOpenPdp ==
    /\ fpc = "pdp"
    /\ IF Stale \/ MatchedCard.kind \notin {"link", "img"}
       THEN /\ fpc' = "list"
            /\ UNCHANGED <<page, gen, clicks>>
       ELSE \E ok \in ClickOutcomes :
               /\ clicks' = Append(clicks,
                     IF MatchedCard.kind = "link"
                     THEN Click("open_pdp_anchor", ProductLink, ok)
                     ELSE Click("open_pdp_image", CardImage, ok))
               /\ \/ UNCHANGED <<page, gen>>
                  \/ /\ ok
                     /\ page' \in PdpPages
                     /\ gen' = gen + 1
               /\ fpc' = "pdp_buy"
    /\ UNCHANGED <<fpbInputs, pass_i, best_score, best_match, scored, fresult,
                   checkoutCalls, fillCalls, scrolls>>
    /\ UNCHANGED notFpb

\* lines 455-497: on the product page: the size, then the add-to-cart CTA or,
\* without one, the first document-wide buy CTA
FpbPdpBuy ==
    /\ fpc = "pdp_buy"
    /\ \E sz \in SizeClicks :
          LET d == DocOf(page)
              add == find_global_add_to_cart(d)
              globals_cta == find_global_buy_ctas(d)
          IN  IF add # 0
              THEN \E ok \in ClickOutcomes :
                      /\ clicks' = clicks \o sz \o <<Click("pdp_add_to_cart", d[add], ok)>>
                      /\ fpc' = IF ok THEN "checkout" ELSE "list"
              ELSE IF globals_cta # <<>>
              THEN \E ok \in ClickOutcomes :
                      /\ clicks' = clicks \o sz \o
                            <<Click("global_buy", d[globals_cta[1]], ok)>>
                      /\ fpc' = IF ok THEN "checkout" ELSE "list"
              ELSE /\ clicks' = clicks \o sz
                   /\ fpc' = "list"
    /\ UNCHANGED <<fpbInputs, page, gen, pass_i, best_score, best_match, scored, fresult,
                   checkoutCalls, fillCalls, scrolls>>
    /\ UNCHANGED notFpb

\* lines 498-512: the first document-wide buy CTA as the last resort
FpbListGlobal ==
    /\ fpc = "list"
    /\ LET d == DocOf(page)
           globals_cta == find_global_buy_ctas(d)
       IN  IF globals_cta = <<>>
           THEN /\ fpc' = "scroll"
                /\ UNCHANGED clicks
           ELSE \E ok \in ClickOutcomes :
                   /\ clicks' = Append(clicks,
                                       Click("global_buy_list", d[globals_cta[1]], ok))
                   /\ fpc' = IF ok THEN "checkout" ELSE "scroll"
    /\ UNCHANGED <<fpbInputs, page, gen, pass_i, best_score, best_match, scored, fresult,
                   checkoutCalls, fillCalls, scrolls>>
    /\ UNCHANGED notFpb

\* lines 520-525 scrolling twice
FpbScroll_Twice ==
    /\ fpc = "scroll"
    /\ scrolls' = scrolls + 2
    /\ pass_i' = pass_i + 1
    /\ fpc' = "pass"
    /\ UNCHANGED <<fpbInputs, page, gen, best_score, best_match, scored, fresult, clicks,
                   checkoutCalls, fillCalls>>
    /\ UNCHANGED notFpb

\* lines 520-525: scroll to load more content, sleep scroll_delay
FpbScroll ==
    /\ fpc = "scroll"
    /\ scrolls' = scrolls + 1
    /\ pass_i' = pass_i + 1
    /\ fpc' = "pass"
    /\ UNCHANGED <<fpbInputs, page, gen, best_score, best_match, scored, fresult, clicks,
                   checkoutCalls, fillCalls>>
    /\ UNCHANGED notFpb

\* lines 321-371: proceed_to_checkout after a click that succeeded
FpbCheckout ==
    /\ fpc = "checkout"
    /\ checkoutCalls' = checkoutCalls + 1
    /\ \/ clicks' = Append(clicks, Click("checkout_transition", CheckoutCta, TRUE))
       \/ UNCHANGED clicks
    /\ fpc' = "fill"
    /\ UNCHANGED <<fpbInputs, page, gen, pass_i, best_score, best_match, scored, fresult,
                   fillCalls, scrolls>>
    /\ UNCHANGED notFpb

\* lines 428-435 without the test of cc_info
FpbFill_Always ==
    /\ fpc = "fill"
    /\ fillCalls' = fillCalls + 1
    /\ fresult' = "True"
    /\ fpc' = "done"
    /\ UNCHANGED <<fpbInputs, page, gen, pass_i, best_score, best_match, scored, clicks,
                   checkoutCalls, scrolls>>
    /\ UNCHANGED notFpb

\* lines 428-435 (and the like): fill_and_submit_form if cc_info, then return True
FpbFill ==
    /\ fpc = "fill"
    /\ fillCalls' = IF cc_info THEN fillCalls + 1 ELSE fillCalls
    /\ fresult' = "True"
    /\ fpc' = "done"
    /\ UNCHANGED <<fpbInputs, page, gen, pass_i, best_score, best_match, scored, clicks,
                   checkoutCalls, scrolls>>
    /\ UNCHANGED notFpb

FpbNext ==
    \/ FpbDismissBanners
    \/ FpbScanPass
    \/ FpbExtractRaises
    \/ FpbReturnFalse
    \/ FpbGlobalBuy
    \/ FpbNoMatch
    \/ FpbInline
    \/ FpbNear
    \/ FpbOpenPdp
    \/ FpbPdpBuy
    \/ FpbListGlobal
    \/ FpbScroll
    \/ FpbCheckout
    \/ FpbFill

InitFpb == MonIdle /\ CtaIdle /\ FpbInit /\ RestIdle

SpecFpb == InitFpb /\ [][FpbNext]_vars

\* the caller is about to call find_product_and_buy
FpbBeforeCall ==
    /\ page0 = [cards |-> <<>>, outside |-> <<>>, hasName |-> FALSE]
    /\ settings = [allow_global_cta_when_name_found |-> TRUE,
                   allow_global_cta_always |-> FALSE,
                   dismiss_banners |-> TRUE,
                   max_scrolls |-> 0,
                   min_match_score |-> min_score_default]
    /\ cc_info = FALSE
    /\ preferred_size = FALSE
    /\ fpc = "call"
    /\ page = page0
    /\ gen = 1
    /\ pass_i = 0
    /\ best_score = 0
    /\ best_match = NoMatch
    /\ fresult = "running"
    /\ clicks = <<>>
    /\ checkoutCalls = 0
    /\ fillCalls = 0
    /\ scrolls = 0
    /\ scored = <<>>

\* line 373: the call binds the arguments, on the page the driver shows
FpbCall ==
    /\ fpc = "call"
    /\ page0' \in Pages
    /\ settings' \in [allow_global_cta_when_name_found : BOOLEAN,
                      allow_global_cta_always : BOOLEAN,
                      dismiss_banners : BOOLEAN,
                      max_scrolls : 0..MaxScrolls,
                      min_match_score : MinScores]
    /\ cc_info' \in BOOLEAN
    /\ preferred_size' \in BOOLEAN
    /\ page' = page0'
    /\ fpc' = "start"
    /\ UNCHANGED <<gen, pass_i, best_score, best_match, scored, fresult, clicks,
                   checkoutCalls, fillCalls, scrolls>>
    /\ UNCHANGED notFpb

FpbLiveNext == FpbCall \/ FpbNext

InitFpbLive == MonIdle /\ CtaIdle /\ FpbBeforeCall /\ RestIdle

\* every call the function makes returns or raises: the function keeps running
SpecFpbLive == InitFpbLive /\ [][FpbLiveNext]_vars /\ WF_vars(FpbLiveNext)


(***************************************************************************)
(* SpecFpbScan: find_product_and_buy on listing pages with several          *)
(* candidates and more scores, under the default global-CTA settings.       *)
(***************************************************************************)
\* similarity scores of the candidates, in tenths: no similarity at all,
\* below the threshold, at it and above it
ScanScores == {0, min_score_default - 1, min_score_default, min_score_default + 1}

ScanPages ==
    [cards : UNION {[1..n -> [kind : CardKinds, score : ScanScores]] : n \in 0..MaxScanCards},
     outside : {<<>>, <<AddToBag>>},
     hasName : BOOLEAN]

FpbScanInit ==
    /\ page0 \in ScanPages
    /\ settings \in [allow_global_cta_when_name_found : {TRUE},
                     allow_global_cta_always : {FALSE},
                     dismiss_banners : {TRUE},
                     max_scrolls : {MaxScrolls},
                     min_match_score : MinScores]
    /\ cc_info \in BOOLEAN
    /\ preferred_size = FALSE
    /\ fpc = "start"
    /\ page = page0
    /\ gen = 1
    /\ pass_i = 0
    /\ best_score = 0
    /\ best_match = NoMatch
    /\ fresult = "running"
    /\ clicks = <<>>
    /\ checkoutCalls = 0
    /\ fillCalls = 0
    /\ scrolls = 0
    /\ scored = <<>>

InitFpbScan == MonIdle /\ CtaIdle /\ FpbScanInit /\ RestIdle

SpecFpbScan == InitFpbScan /\ [][FpbNext]_vars

(***************************************************************************)
(* form_filler.fill_and_submit_form, one action per step of lines 570-611. *)
(* Every helper is best-effort: it answers whether it found and handled    *)
(* its element.  The whole body sits in one try (lines 570-613).           *)
(***************************************************************************)
\* the step and whether it found what it looks for
Step(name, hit) == [step |-> name, hit |-> hit]

\* a helper runs and the function moves on
RunStep(at, name, hits, to) ==
    /\ ffPc = at
    /\ \E hit \in hits : ffLog' = Append(ffLog, Step(name, hit))
    /\ ffPc' = to
    /\ UNCHANGED ffRaised
    /\ UNCHANGED notFill

FillInit ==
    /\ ffPc = "contact"
    /\ ffLog = <<>>
    /\ ffRaised = FALSE

\* line 572: _try_fill_contact_and_address
FillContactAndAddress ==
    RunStep("contact", "ContactAndAddress", BOOLEAN, "advance1")

\* line 574: _click_intermediate_ctas
FillAdvanceAfterContact ==
    RunStep("advance1", "IntermediateAdvance", BOOLEAN, "shipping")

\* line 578 going on to line 580 whatever _select_shipping_method answered
FillShippingMethod_AlwaysAdvance ==
    RunStep("shipping", "ShippingMethod", BOOLEAN, "advance2")

\* line 578: _select_shipping_method; lines 579-581 only if it selected one
FillShippingMethod ==
    /\ ffPc = "shipping"
    /\ \E hit \in BOOLEAN :
          /\ ffLog' = Append(ffLog, Step("ShippingMethod", hit))
          /\ ffPc' = IF hit THEN "advance2" ELSE "tab"
    /\ UNCHANGED ffRaised
    /\ UNCHANGED notFill

\* line 580: _click_intermediate_ctas
FillAdvanceAfterShipping ==
    RunStep("advance2", "IntermediateAdvance", BOOLEAN, "tab")

\* line 584: _choose_credit_card_tab
FillPaymentMethodTab ==
    RunStep("tab", "PaymentMethodTab", BOOLEAN, "inline")

\* line 588: try_fill_simple_inputs
FillCardFieldsInline ==
    RunStep("inline", "CardFieldsInline", BOOLEAN, "frames")

\* lines 160-252: try_fill_simple_inputs catches WebDriverException only; any
\* other error of find_elements reaches the handler of line 612
FillCardFieldsInlineRaises ==
    /\ ffPc = "inline"
    /\ ffLog' = Append(ffLog, Step("CardFieldsInline", FALSE))
    /\ ffRaised' = TRUE
    /\ ffPc' = "done"
    /\ UNCHANGED notFill

\* line 589: _try_fill_card_iframes
FillCardFieldsFrames ==
    RunStep("frames", "CardFieldsFrames", BOOLEAN, "terms")

\* line 595: _accept_terms
FillTermsAcceptance ==
    RunStep("terms", "TermsAcceptance", BOOLEAN, "advance3")

\* line 600: _click_intermediate_ctas
FillAdvanceBeforeSubmit ==
    RunStep("advance3", "IntermediateAdvance", BOOLEAN, "overlays")

\* line 602: _dismiss_overlays
FillOverlayClear ==
    RunStep("overlays", "OverlayClear", BOOLEAN, "submit")

\* lines 604-611: click_submit_button; the wait only if it clicked
FillFinalSubmit ==
    /\ ffPc = "submit"
    /\ \E clicked \in BOOLEAN :
          /\ ffLog' = Append(ffLog, Step("FinalSubmit", clicked))
          /\ ffPc' = IF clicked THEN "confirm" ELSE "done"
    /\ UNCHANGED ffRaised
    /\ UNCHANGED notFill

\* line 608: _wait_for_order_confirmation
FillConfirmationWait ==
    RunStep("confirm", "ConfirmationWait", BOOLEAN, "done")

FillNext ==
    \/ FillContactAndAddress
    \/ FillAdvanceAfterContact
    \/ FillShippingMethod
    \/ FillAdvanceAfterShipping
    \/ FillPaymentMethodTab
    \/ FillCardFieldsInline
    \/ FillCardFieldsInlineRaises
    \/ FillCardFieldsFrames
    \/ FillTermsAcceptance
    \/ FillAdvanceBeforeSubmit
    \/ FillOverlayClear
    \/ FillFinalSubmit
    \/ FillConfirmationWait

InitFill == MonIdle /\ CtaIdle /\ FpbIdle /\ FillInit /\ SubmitIdle /\ WaitIdle /\ SleepIdle /\ BannerIdle /\ FieldIdle /\ SizeIdle /\ ExpiryIdle /\ ExtractIdle /\ SimilarIdle /\ DriverIdle /\ AdvanceIdle /\ IframeIdle

SpecFill == InitFill /\ [][FillNext]_vars

(***************************************************************************)
(* form_filler.click_submit_button on a bounded checkout page.             *)
(***************************************************************************)
\* what a control of the checkout page looks like: tag, type attribute, class
\* words, text (for an input, its value)
SubmitShapes ==
    { [tag |-> "button", type |-> "",       cls |-> <<>>,              txt |-> <<"pay", "now">>],
      [tag |-> "input",  type |-> "submit", cls |-> <<>>,              txt |-> <<>>],
      [tag |-> "button", type |-> "submit", cls |-> <<"place-order">>, txt |-> <<"place", "order">>],
      [tag |-> "input",  type |-> "submit", cls |-> <<>>,              txt |-> <<"privacy", "settings">>],
      [tag |-> "button", type |-> "",       cls |-> <<>>,              txt |-> <<"details">>] }

SubmitElements ==
    { [tag |-> sh.tag, type |-> sh.type, cls |-> sh.cls, txt |-> sh.txt,
       displayed |-> d, footer |-> f] :
        sh \in SubmitShapes, d \in BOOLEAN, f \in BOOLEAN }

SubmitDocs == UNION {[1..n -> SubmitElements] : n \in 0..MaxSubmitEls}

\* el.get_attribute("outerHTML"): the tag, the attributes, the text
SubmitOuter(e) ==
    <<e.tag>> \o (IF e.type = "" THEN <<>> ELSE <<"type", e.type>>) \o e.cls \o e.txt

\* lines 446-454
click_submit_button_phrases ==
    { <<"place", "order">>, <<"place", "your", "order">>, <<"complete", "order">>,
      <<"submit", "order">>, <<"confirm", "order">>, <<"confirm", "and", "order">>,
      <<"complete", "purchase">>, <<"buy", "now">>, <<"pay", "now">> }

\* line 455
click_submit_button_deny ==
    { <<"payment", "options">>, <<"payment", "methods">>, <<"help">>, <<"faq">>,
      <<"policy">>, <<"privacy">>, <<"terms">> }

\* line 473
SubmitDenied(e) ==
    \/ AnyRaw(click_submit_button_deny, e.txt)
    \/ AnyRaw(click_submit_button_deny, SubmitOuter(e))

\* line 475
SubmitMatched(e) ==
    \/ AnyBounded(click_submit_button_phrases, e.txt)
    \/ AnyBounded(click_submit_button_phrases, SubmitOuter(e))

\* line 476
SubmitBoost(e) ==
    \/ e.type = "submit"
    \/ HasRaw(<<"place-order">>, SubmitOuter(e))
    \/ HasRaw(<<"submit-order">>, SubmitOuter(e))

\* line 478
SubmitScore(e) ==
    (IF SubmitBoost(e) THEN 2 ELSE 1)
    + (IF HasRaw(<<"button">>, SubmitOuter(e)) THEN 1 ELSE 0)

\* lines 465-477: the element is appended to `scored`
IsSubmitCandidate(e) ==
    /\ e.displayed
    /\ ~e.footer
    /\ ~SubmitDenied(e)
    /\ SubmitMatched(e) \/ SubmitBoost(e)

RECURSIVE CandidatesScoring(_, _, _)
\* the candidates of d from index `from` on whose score is sc, in document order
CandidatesScoring(d, sc, from) ==
    IF from > Len(d) THEN <<>>
    ELSE IF IsSubmitCandidate(d[from]) /\ SubmitScore(d[from]) = sc
         THEN <<from>> \o CandidatesScoring(d, sc, from + 1)
         ELSE CandidatesScoring(d, sc, from + 1)

\* lines 462-483: scored.sort(key=score, reverse=True) is stable, so equal
\* scores keep their document order
SortedCandidates(d) ==
    CandidatesScoring(d, 4, 1) \o CandidatesScoring(d, 3, 1)
    \o CandidatesScoring(d, 2, 1) \o CandidatesScoring(d, 1, 1)

RECURSIVE SubmitInputs(_, _)
\* line 508: driver.find_elements(By.XPATH, "//input[@type='submit']")
SubmitInputs(d, from) ==
    IF from > Len(d) THEN <<>>
    ELSE IF d[from].tag = "input" /\ d[from].type = "submit"
         THEN <<from>> \o SubmitInputs(d, from + 1)
         ELSE SubmitInputs(d, from + 1)

\* an entry of the operation log
SubmitOp(op, el, outcome) == [op |-> op, el |-> el, outcome |-> outcome]

\* what a click can end in: done, refused because an overlay intercepts it
\* (ElementClickInterceptedException), refused for another reason
ClickEnds == {"ok", "intercepted", "failed"}

SubmitInit ==
    /\ sbDoc \in SubmitDocs
    /\ sbPc = "collect"
    /\ sbScored = <<>>
    /\ sbI = 1
    /\ sbLog = <<>>
    /\ sbResult = "running"

\* lines 457-483
SubmitCollect ==
    /\ sbPc = "collect"
    /\ sbScored' = SortedCandidates(sbDoc)
    /\ sbI' = 1
    /\ sbPc' = "try"
    /\ UNCHANGED <<sbDoc, sbLog, sbResult>>
    /\ UNCHANGED notSubmit

\* lines 485-504: safe_click (utils.py lines 22-39) catches every exception
\* of the click and answers False, so the handler of line 495 never runs
SubmitTry ==
    /\ sbPc = "try"
    /\ sbI <= Len(sbScored)
    /\ \E end \in ClickEnds :
          /\ sbLog' = Append(sbLog, SubmitOp("final_submit", sbScored[sbI], end))
          /\ IF end = "ok"
             THEN /\ sbResult' = "True"
                  /\ sbPc' = "done"
                  /\ UNCHANGED sbI
             ELSE /\ sbI' = sbI + 1
                  /\ UNCHANGED <<sbResult, sbPc>>
    /\ UNCHANGED <<sbDoc, sbScored>>
    /\ UNCHANGED notSubmit

\* lines 506-508: the candidates are used up
SubmitToFallback ==
    /\ sbPc = "try"
    /\ sbI > Len(sbScored)
    /\ sbI' = 1
    /\ sbPc' = "fallback"
    /\ UNCHANGED <<sbDoc, sbScored, sbLog, sbResult>>
    /\ UNCHANGED notSubmit

\* lines 509-518: the generic submit inputs, clicked directly
SubmitFallbackTry ==
    /\ sbPc = "fallback"
    /\ sbI <= Len(SubmitInputs(sbDoc, 1))
    /\ LET i == SubmitInputs(sbDoc, 1)[sbI]
       IN  IF ~sbDoc[i].displayed
           THEN /\ sbI' = sbI + 1
                /\ UNCHANGED <<sbLog, sbResult, sbPc>>
           ELSE \E end \in ClickEnds :
                   /\ sbLog' = Append(sbLog, SubmitOp("generic_submit", i, end))
                   /\ IF end = "ok"
                      THEN /\ sbResult' = "True"
                           /\ sbPc' = "done"
                           /\ UNCHANGED sbI
                      ELSE /\ sbI' = sbI + 1
                           /\ UNCHANGED <<sbResult, sbPc>>
    /\ UNCHANGED <<sbDoc, sbScored>>
    /\ UNCHANGED notSubmit

\* lines 522-523
SubmitReturnFalse ==
    /\ sbPc = "fallback"
    /\ sbI > Len(SubmitInputs(sbDoc, 1))
    /\ sbResult' = "False"
    /\ sbPc' = "done"
    /\ UNCHANGED <<sbDoc, sbScored, sbI, sbLog>>
    /\ UNCHANGED notSubmit

SubmitNext ==
    \/ SubmitCollect
    \/ SubmitTry
    \/ SubmitToFallback
    \/ SubmitFallbackTry
    \/ SubmitReturnFalse

InitSubmit == MonIdle /\ CtaIdle /\ FpbIdle /\ FillIdle /\ SubmitInit /\ WaitIdle /\ SleepIdle /\ BannerIdle /\ FieldIdle /\ SizeIdle /\ ExpiryIdle /\ ExtractIdle /\ SimilarIdle /\ DriverIdle /\ AdvanceIdle /\ IframeIdle

SpecSubmit == InitSubmit /\ [][SubmitNext]_vars

(***************************************************************************)
(* The waiting operations: monitor._handle_detected_challenge,             *)
(* ai_detector.proceed_to_checkout, form_filler._wait_for_order_confirmation. *)
(* Time is counted in whole seconds; a loop is a test step and a body step. *)
(***************************************************************************)
\* "other" stands for every value that is none of the three names
Strategies == {"pause", "wait", "backoff", "other"}

\* time.sleep raises ValueError on a negative argument
WaitPolls == -1..MaxWaitPoll
WaitTotals == 0..MaxWaitTotal

\* a pass of a wall-clock loop takes at least its sleep, here one second
Elapsed == {1, 2}
Later(t, dt) == IF t + dt > MaxWaitTotal + 1 THEN MaxWaitTotal + 1 ELSE t + dt

WaitInit ==
    /\ wKind \in {"challenge", "checkout", "confirm"}
    /\ strategy \in (IF wKind = "challenge" THEN Strategies ELSE {"pause"})
    /\ total \in WaitTotals
    /\ poll \in (IF wKind = "challenge" /\ strategy = "wait" THEN WaitPolls ELSE {0})
    /\ waited = 0
    /\ now = 0
    /\ wPc = "start"
    /\ wOps = {}
    /\ wResult = "running"

WaitDone(r) ==
    /\ wPc' = "done"
    /\ wResult' = r

\* monitor.py lines 179-184 and 196-202: pause and backoff sleep once; a value
\* that is none of the three falls off the end of the function
HandlePauseOrBackoff ==
    /\ wKind = "challenge"
    /\ wPc = "start"
    /\ strategy # "wait"
    /\ wOps' = IF strategy = "other" THEN wOps ELSE wOps \cup {"sleep"}
    /\ WaitDone("None")
    /\ UNCHANGED <<wKind, strategy, total, poll, waited, now>>
    /\ UNCHANGED notWait

\* monitor.py lines 185-189: while waited < total
HandleWaitTest ==
    /\ wKind = "challenge"
    /\ strategy = "wait"
    /\ wPc \in {"start", "test"}
    /\ IF waited < total
       THEN wPc' = "body" /\ UNCHANGED wResult
       ELSE WaitDone("None")
    /\ UNCHANGED <<wKind, strategy, total, poll, waited, now, wOps>>
    /\ UNCHANGED notWait

\* monitor.py lines 190-194 with a poll that also reloads the page
HandleWaitBody_Refreshes ==
    /\ wKind = "challenge"
    /\ wPc = "body"
    /\ IF poll < 0
       THEN /\ WaitDone("raised")
            /\ UNCHANGED <<waited, wOps>>
       ELSE /\ waited' = waited + poll
            /\ wOps' = wOps \cup {"sleep", "refresh", "title", "page_source"}
            /\ \E cleared \in BOOLEAN :
                  IF cleared THEN WaitDone("None")
                  ELSE wPc' = "test" /\ UNCHANGED wResult
    /\ UNCHANGED <<wKind, strategy, total, poll, now>>
    /\ UNCHANGED notWait

\* monitor.py lines 190-194: sleep, count, detect again (lines 142-167 read
\* driver.title and driver.page_source); the page decides whether the
\* challenge is still there
HandleWaitBody ==
    /\ wKind = "challenge"
    /\ wPc = "body"
    /\ IF poll < 0
       THEN /\ WaitDone("raised")
            /\ UNCHANGED <<waited, wOps>>
       ELSE /\ waited' = waited + poll
            /\ wOps' = wOps \cup {"sleep", "title", "page_source"}
            /\ \E cleared \in BOOLEAN :
                  IF cleared THEN WaitDone("None")
                  ELSE wPc' = "test" /\ UNCHANGED wResult
    /\ UNCHANGED <<wKind, strategy, total, poll, now>>
    /\ UNCHANGED notWait

\* ai_detector.py line 334 and lines 369-370, form_filler.py lines 553 and 561:
\* while time.time() < end_time
ClockTest ==
    /\ wKind \in {"checkout", "confirm"}
    /\ wPc \in {"start", "test"}
    /\ IF now < total
       THEN wPc' = "body" /\ UNCHANGED wResult
       ELSE WaitDone("False")
    /\ UNCHANGED <<wKind, strategy, total, poll, waited, now, wOps>>
    /\ UNCHANGED notWait

\* ai_detector.py lines 335-367: look for a checkout CTA, click it and return
\* True, or sleep poll_interval
CheckoutBody ==
    /\ wKind = "checkout"
    /\ wPc = "body"
    /\ \E clicked \in BOOLEAN, dt \in Elapsed :
          /\ now' = Later(now, dt)
          /\ IF clicked
             THEN /\ wOps' = wOps \cup {"find_elements", "click", "sleep"}
                  /\ WaitDone("True")
             ELSE /\ wOps' = wOps \cup {"find_elements", "sleep"}
                  /\ wPc' = "test"
                  /\ UNCHANGED wResult
    /\ UNCHANGED <<wKind, strategy, total, poll, waited>>
    /\ UNCHANGED notWait

\* form_filler.py lines 554-560: a success token in the page source returns
\* True, otherwise sleep one second
ConfirmBody ==
    /\ wKind = "confirm"
    /\ wPc = "body"
    /\ \E token \in BOOLEAN, dt \in Elapsed :
          /\ now' = Later(now, dt)
          /\ IF token
             THEN /\ wOps' = wOps \cup {"page_source"}
                  /\ WaitDone("True")
             ELSE /\ wOps' = wOps \cup {"page_source", "sleep"}
                  /\ wPc' = "test"
                  /\ UNCHANGED wResult
    /\ UNCHANGED <<wKind, strategy, total, poll, waited>>
    /\ UNCHANGED notWait

WaitNext ==
    \/ HandlePauseOrBackoff
    \/ HandleWaitTest
    \/ HandleWaitBody
    \/ ClockTest
    \/ CheckoutBody
    \/ ConfirmBody

InitWait == MonIdle /\ CtaIdle /\ FpbIdle /\ FillIdle /\ SubmitIdle /\ WaitInit /\ SleepIdle /\ BannerIdle /\ FieldIdle /\ SizeIdle /\ ExpiryIdle /\ ExtractIdle /\ SimilarIdle /\ DriverIdle /\ AdvanceIdle /\ IframeIdle

\* every call the loops make returns: a started operation keeps taking steps
SpecWait == InitWait /\ [][WaitNext]_vars /\ WF_vars(WaitNext)

(***************************************************************************)
(* The jittered sleeps: the 'backoff' strategy of                          *)
(* monitor._handle_detected_challenge and the retry sleep of               *)
(* monitor.check_product_and_buy.                                          *)
(***************************************************************************)
Max2(a, b) == IF a >= b THEN a ELSE b

\* random.randint(-jitter, jitter): both ends included
Randint(lo, hi) == lo..hi

\* lines 198 and 310 without the floor of one second
JitteredSleep_NoFloor(delay, r) == delay + r

\* lines 198 and 310: max(1, delay + random.randint(-jitter, jitter))
JitteredSleep(delay, r) == Max2(1, delay + r)

SleepInit ==
    /\ retry_delay \in 0..MaxRetryDelay
    /\ retry_jitter \in 0..MaxRetryJitter
    /\ sleep_site = "none"
    /\ sleep_s = 0

\* monitor.py lines 196-201: the 'backoff' strategy
BackoffSleep ==
    /\ sleep_site = "none"
    /\ \E r \in Randint(-retry_jitter, retry_jitter) :
          sleep_s' = JitteredSleep(retry_delay, r)
    /\ sleep_site' = "backoff"
    /\ UNCHANGED <<retry_delay, retry_jitter>>
    /\ UNCHANGED notSleep

\* monitor.py lines 307-311: after a cycle without purchase
RetrySleep ==
    /\ sleep_site = "none"
    /\ \E r \in Randint(-retry_jitter, retry_jitter) :
          sleep_s' = JitteredSleep(retry_delay, r)
    /\ sleep_site' = "retry"
    /\ UNCHANGED <<retry_delay, retry_jitter>>
    /\ UNCHANGED notSleep

SleepNext == BackoffSleep \/ RetrySleep

InitSleep == MonIdle /\ CtaIdle /\ FpbIdle /\ FillIdle /\ SubmitIdle /\ WaitIdle /\ SleepInit /\ BannerIdle /\ FieldIdle /\ SizeIdle /\ ExpiryIdle /\ ExtractIdle /\ SimilarIdle /\ DriverIdle /\ AdvanceIdle /\ IframeIdle

SpecSleep == InitSleep /\ [][SleepNext]_vars

(***************************************************************************)
(* ai_detector.dismiss_banners on a bounded page.                          *)
(***************************************************************************)
\* tag, class words, aria-label, text
BannerShapes ==
    { [tag |-> "button", cls |-> <<"cookie-accept">>, aria |-> "",      txt |-> <<"accept">>],
      [tag |-> "div",    cls |-> <<>>,                aria |-> "",      txt |-> <<"we", "use", "cookies", "accept">>],
      [tag |-> "button", cls |-> <<>>,                aria |-> "",      txt |-> <<"accept">>],
      [tag |-> "a",      cls |-> <<>>,                aria |-> "",      txt |-> <<"privacy", "policy">>],
      [tag |-> "button", cls |-> <<>>,                aria |-> "Close", txt |-> <<"x">>],
      [tag |-> "div",    cls |-> <<"close">>,         aria |-> "",      txt |-> <<"got", "it", "cookie">>],
      [tag |-> "span",   cls |-> <<"close">>,         aria |-> "",      txt |-> <<>>] }

BannerElements ==
    { [tag |-> sh.tag, cls |-> sh.cls, aria |-> sh.aria, txt |-> sh.txt, displayed |-> d] :
        sh \in BannerShapes, d \in BOOLEAN }

BannerDocs == UNION {[1..n -> BannerElements] : n \in 0..MaxBannerEls}

BannerOuter(e) ==
    <<e.tag>> \o e.cls \o (IF e.aria = "" THEN <<>> ELSE <<"aria-label", e.aria>>) \o e.txt

\* `t in txt` is a substring test: a token is found inside a longer word
Infixes ==
    { <<"ok", "cookie">>, <<"ok", "cookies">>, <<"ok", "cookie-accept">>,
      <<"cookie", "cookies">>, <<"cookie", "cookie-accept">>,
      <<"accept", "cookie-accept">> }

InWord(tok, word) == tok = word \/ <<tok, word>> \in Infixes

RECURSIVE TokenAt(_, _, _)
\* the words of tok occur in text from position i on
TokenAt(tok, text, i) ==
    \/ tok = <<>>
    \/ /\ i <= Len(text)
       /\ InWord(tok[1], text[i])
       /\ TokenAt(Tail(tok), text, i + 1)

HasToken(toks, text) == \E tok \in toks : \E i \in 1..Len(text) : TokenAt(tok, text, i)

\* line 223
tokens_btn ==
    { <<"accept">>, <<"agree">>, <<"allow", "all">>, <<"got", "it">>, <<"ok">>,
      <<"i", "understand">>, <<"continue">> }

\* line 224
tokens_ctx == { <<"cookie">>, <<"consent">>, <<"gdpr">>, <<"privacy">>, <<"policy">> }

\* line 226: "//button | //a | //div"
RECURSIVE BannerCtas(_, _)
BannerCtas(d, from) ==
    IF from > Len(d) THEN <<>>
    ELSE IF d[from].tag \in {"button", "a", "div"}
         THEN <<from>> \o BannerCtas(d, from + 1)
         ELSE BannerCtas(d, from + 1)

\* line 235
IsConsentButton(e) ==
    /\ HasToken(tokens_btn, e.txt)
    /\ HasToken(tokens_ctx, BannerOuter(e)) \/ HasToken(tokens_ctx, e.txt)

\* line 243: aria-label Close or Dismiss, or a class that contains "close"
RECURSIVE BannerCloses(_, _)
BannerCloses(d, from) ==
    IF from > Len(d) THEN <<>>
    ELSE IF d[from].aria \in {"Close", "Dismiss"} \/ (\E k \in 1..Len(d[from].cls) : d[from].cls[k] = "close")
         THEN <<from>> \o BannerCloses(d, from + 1)
         ELSE BannerCloses(d, from + 1)

BannerInit ==
    /\ bnDoc \in BannerDocs
    /\ bnSetting \in {"absent", "True", "False"}
    /\ bnPc = "start"
    /\ bnI = 1
    /\ dismissed = 0
    /\ bnLog = <<>>
    /\ bnResult = "running"

\* what a call on an element may do: "raises" is is_displayed or an
\* attribute read raising (a stale element); a click is refused or done
ElementEnds == {"raises", "refused", "done"}

\* lines 220-221
BannersDisabled ==
    /\ bnPc = "start"
    /\ bnSetting = "False"
    /\ bnResult' = 0
    /\ bnPc' = "done"
    /\ UNCHANGED <<bnDoc, bnSetting, bnI, dismissed, bnLog>>
    /\ UNCHANGED notBanner

\* lines 222-228: find_elements answers, or raises and ctas = []
BannersFind ==
    /\ bnPc = "start"
    /\ bnSetting # "False"
    /\ \/ bnPc' = "ctas"
       \/ bnPc' = "find_closes"
    /\ bnI' = 1
    /\ UNCHANGED <<bnDoc, bnSetting, dismissed, bnLog, bnResult>>
    /\ UNCHANGED notBanner

\* lines 229-239 with a refused click counted like a successful one
BannerVisit_CountsRefused ==
    /\ bnPc = "ctas"
    /\ bnI <= Len(BannerCtas(bnDoc, 1))
    /\ \E end \in ElementEnds :
         LET i == BannerCtas(bnDoc, 1)[bnI]
         IN  IF end # "raises" /\ bnDoc[i].displayed /\ IsConsentButton(bnDoc[i])
             THEN /\ bnLog' = Append(bnLog, [desc |-> "dismiss_banner", el |-> i, ok |-> end = "done"])
                  /\ dismissed' = dismissed + 1
             ELSE UNCHANGED <<bnLog, dismissed>>
    /\ bnI' = bnI + 1
    /\ UNCHANGED <<bnDoc, bnSetting, bnPc, bnResult>>
    /\ UNCHANGED notBanner

\* lines 229-239: one element of the first loop
BannerVisit ==
    /\ bnPc = "ctas"
    /\ bnI <= Len(BannerCtas(bnDoc, 1))
    /\ \E end \in ElementEnds :
         LET i == BannerCtas(bnDoc, 1)[bnI]
         IN  IF end # "raises" /\ bnDoc[i].displayed /\ IsConsentButton(bnDoc[i])
             THEN /\ bnLog' = Append(bnLog, [desc |-> "dismiss_banner", el |-> i, ok |-> end = "done"])
                  /\ dismissed' = IF end = "done" THEN dismissed + 1 ELSE dismissed
             ELSE UNCHANGED <<bnLog, dismissed>>
    /\ bnI' = bnI + 1
    /\ UNCHANGED <<bnDoc, bnSetting, bnPc, bnResult>>
    /\ UNCHANGED notBanner

\* the first loop is over
BannersToCloses ==
    /\ bnPc = "ctas"
    /\ bnI > Len(BannerCtas(bnDoc, 1))
    /\ bnPc' = "find_closes"
    /\ bnI' = 1
    /\ UNCHANGED <<bnDoc, bnSetting, dismissed, bnLog, bnResult>>
    /\ UNCHANGED notBanner

\* lines 241-243 and 249-251: find_elements answers, or raises and the
\* function returns what it counted
BannersFindCloses ==
    /\ bnPc = "find_closes"
    /\ \/ /\ bnPc' = "closes"
          /\ UNCHANGED bnResult
       \/ /\ bnPc' = "done"
          /\ bnResult' = dismissed
    /\ UNCHANGED <<bnDoc, bnSetting, bnI, dismissed, bnLog>>
    /\ UNCHANGED notBanner

\* lines 244-248: one element of the second loop
BannerCloseVisit ==
    /\ bnPc = "closes"
    /\ bnI <= Len(BannerCloses(bnDoc, 1))
    /\ \E end \in ElementEnds :
         LET i == BannerCloses(bnDoc, 1)[bnI]
         IN  IF end # "raises" /\ bnDoc[i].displayed
             THEN /\ bnLog' = Append(bnLog, [desc |-> "dismiss_close", el |-> i, ok |-> end = "done"])
                  /\ dismissed' = IF end = "done" THEN dismissed + 1 ELSE dismissed
             ELSE UNCHANGED <<bnLog, dismissed>>
    /\ bnI' = bnI + 1
    /\ UNCHANGED <<bnDoc, bnSetting, bnPc, bnResult>>
    /\ UNCHANGED notBanner

\* line 251
BannersReturn ==
    /\ bnPc = "closes"
    /\ bnI > Len(BannerCloses(bnDoc, 1))
    /\ bnResult' = dismissed
    /\ bnPc' = "done"
    /\ UNCHANGED <<bnDoc, bnSetting, bnI, dismissed, bnLog>>
    /\ UNCHANGED notBanner

BannerNext ==
    \/ BannersDisabled
    \/ BannersFind
    \/ BannerVisit
    \/ BannersToCloses
    \/ BannersFindCloses
    \/ BannerCloseVisit
    \/ BannersReturn

InitBanner == MonIdle /\ CtaIdle /\ FpbIdle /\ FillIdle /\ SubmitIdle /\ WaitIdle /\ SleepIdle /\ BannerInit /\ FieldIdle /\ SizeIdle /\ ExpiryIdle /\ ExtractIdle /\ SimilarIdle /\ DriverIdle /\ AdvanceIdle /\ IframeIdle

SpecBanner == InitBanner /\ [][BannerNext]_vars

(***************************************************************************)
(* The field-filling helpers of form_filler.py: _try_fill_contact_and_address, *)
(* try_fill_simple_inputs, _try_fill_card_iframes. An input is named by the *)
(* semantic field its name, id or placeholder stands for.                  *)
(***************************************************************************)
FieldKeys == {"email", "number", "expiry", "cvv"}

\* the fields each helper has a branch for
ContactKeys == {"email"}
InlineKeys == {"number", "expiry", "cvv"}
\* inside a frame the expiry may be one input or a month and a year input
FrameInputs == {"number", "expiry", "mm_yy", "cvv"}
FrameKey(i) == IF i = "mm_yy" THEN "expiry" ELSE i

\* the frame inputs the helper reaches: the month and year inputs are looked
\* for only when the single expiry input is missing or raised (lines 298-312)
FrameReached(inputs, raising) ==
    {i \in inputs : i = "mm_yy" => ("expiry" \notin inputs \/ "expiry" \in raising)}

FieldInit ==
    /\ cc_keys \in SUBSET FieldKeys
    /\ page_inputs \in SUBSET FieldKeys
    /\ frame_inputs \in SUBSET FrameInputs
    /\ fkPc = "contact"
    /\ cleared_inputs = {}
    /\ written_inputs = {}
    /\ counted = {}
    /\ filled = 0

\* lines 35-145: a branch runs only when cc_info.get(key) is truthy; clear may
\* raise and is ignored, send_keys may raise and the field is not counted
FieldsContact ==
    /\ fkPc = "contact"
    /\ \E raising \in SUBSET (page_inputs \cap ContactKeys) :
         LET hit == page_inputs \cap ContactKeys \cap cc_keys
         IN  /\ cleared_inputs' = cleared_inputs \cup hit
             /\ written_inputs' = written_inputs \cup (hit \ raising)
             /\ counted' = counted \cup (hit \ raising)
             /\ filled' = filled + Cardinality(hit \ raising)
    /\ fkPc' = "inline"
    /\ UNCHANGED <<cc_keys, page_inputs, frame_inputs>>
    /\ UNCHANGED notField

\* lines 148-253: the loop of line 179 runs over the keys cc_info holds;
\* clear or send_keys raising moves on to the next key
FieldsInline ==
    /\ fkPc = "inline"
    /\ \E raising \in SUBSET (page_inputs \cap InlineKeys) :
         LET hit == page_inputs \cap InlineKeys \cap cc_keys
         IN  /\ cleared_inputs' = cleared_inputs \cup (hit \ raising)
             /\ written_inputs' = written_inputs \cup (hit \ raising)
             /\ counted' = counted \cup (hit \ raising)
             /\ filled' = filled + Cardinality(hit \ raising)
    /\ fkPc' = "frames"
    /\ UNCHANGED <<cc_keys, page_inputs, frame_inputs>>
    /\ UNCHANGED notField

\* lines 256-320: inside the payment frame every input that is found is
\* cleared and sent cc_info.get(key, ""), and counted, whether or not cc_info
\* holds the key (lines 285, 291, 302-311, 316)
FieldsFrames ==
    /\ fkPc = "frames"
    /\ \E raising \in SUBSET frame_inputs :
         LET hit == FrameReached(frame_inputs, raising) \ raising
         IN  /\ cleared_inputs' = cleared_inputs \cup {FrameKey(i) : i \in hit}
             /\ written_inputs' = written_inputs \cup {FrameKey(i) : i \in hit}
             /\ counted' = counted \cup {FrameKey(i) : i \in hit}
             /\ filled' = filled + Cardinality(hit) + (IF "mm_yy" \in hit THEN 1 ELSE 0)
    /\ fkPc' = "done"
    /\ UNCHANGED <<cc_keys, page_inputs, frame_inputs>>
    /\ UNCHANGED notField

FieldNext == FieldsContact \/ FieldsInline \/ FieldsFrames

InitField == MonIdle /\ CtaIdle /\ FpbIdle /\ FillIdle /\ SubmitIdle /\ WaitIdle /\ SleepIdle /\ BannerIdle /\ FieldInit /\ SizeIdle /\ ExpiryIdle /\ ExtractIdle /\ SimilarIdle /\ DriverIdle /\ AdvanceIdle /\ IframeIdle

SpecField == InitField /\ [][FieldNext]_vars

(***************************************************************************)
(* ai_detector.select_size_on_pdp on a bounded product page.               *)
(***************************************************************************)
\* tag, text, aria-label
SizeShapes ==
    { [tag |-> "button", txt |-> "10",      aria |-> ""],
      [tag |-> "button", txt |-> "10.5",    aria |-> ""],
      [tag |-> "div",    txt |-> "9 10 11", aria |-> ""],
      [tag |-> "button", txt |-> "9",       aria |-> ""],
      [tag |-> "button", txt |-> "110",     aria |-> ""],
      [tag |-> "span",   txt |-> "",        aria |-> "size 10"] }

SizeElements ==
    { [tag |-> sh.tag, txt |-> sh.txt, aria |-> sh.aria, displayed |-> d] :
        sh \in SizeShapes, d \in BOOLEAN }

SizeDocs == UNION {[1..n -> SizeElements] : n \in 0..MaxSizeEls}

\* `token in txt`: the strings of the model that hold "10" as a substring
TokenInText(token, txt) ==
    token = "10" /\ txt \in {"10", "10.5", "9 10 11", "110", "size 10"}

\* re.search(r"\b" + token + r"\b", txt): "." and " " are no word
\* characters, so "10" is found in "10.5", and not in "110"
TokenWordInText(token, txt) ==
    token = "10" /\ txt \in {"10", "10.5", "9 10 11", "size 10"}

\* line 134
SizeMatches(token, txt) == TokenInText(token, txt) \/ TokenWordInText(token, txt)

\* line 129: "//button | //label | //a | //div"
RECURSIVE SizeCandidates(_, _)
SizeCandidates(d, from) ==
    IF from > Len(d) THEN <<>>
    ELSE IF d[from].tag \in {"button", "label", "a", "div"}
         THEN <<from>> \o SizeCandidates(d, from + 1)
         ELSE SizeCandidates(d, from + 1)

\* line 144: contains(@aria-label, '') holds for every element
SizeAriaEls(d) == [k \in 1..Len(d) |-> k]

SizeInit ==
    /\ szDoc \in SizeDocs
    /\ szToken \in {"", "10"}
    /\ szPc = "start"
    /\ szI = 1
    /\ szLog = <<>>
    /\ szResult = "running"

SizeClick(desc, el, ok) == [desc |-> desc, el |-> el, ok |-> ok]

\* lines 122-123
SizeNoPreference ==
    /\ szPc = "start"
    /\ szToken = ""
    /\ szResult' = "False"
    /\ szPc' = "done"
    /\ UNCHANGED <<szDoc, szToken, szI, szLog>>
    /\ UNCHANGED notSize

\* lines 127-129 and 155-158: find_elements answers, or raises and the
\* function returns False
SizeFind ==
    /\ szPc = "start"
    /\ szToken # ""
    /\ \/ /\ szPc' = "candidates"
          /\ UNCHANGED szResult
       \/ /\ szPc' = "done"
          /\ szResult' = "False"
    /\ szI' = 1
    /\ UNCHANGED <<szDoc, szToken, szLog>>
    /\ UNCHANGED notSize

\* lines 130-141: one element of the first loop, in document order
SizeVisit ==
    /\ szPc = "candidates"
    /\ szI <= Len(SizeCandidates(szDoc, 1))
    /\ \E end \in ElementEnds :
         LET i == SizeCandidates(szDoc, 1)[szI]
         IN  IF end # "raises" /\ szDoc[i].displayed /\ SizeMatches(szToken, szDoc[i].txt)
             THEN /\ szLog' = Append(szLog, SizeClick("select_size", i, end = "done"))
                  /\ IF end = "done"
                     THEN szResult' = "True" /\ szPc' = "done" /\ UNCHANGED szI
                     ELSE szI' = szI + 1 /\ UNCHANGED <<szResult, szPc>>
             ELSE /\ szI' = szI + 1
                  /\ UNCHANGED <<szLog, szResult, szPc>>
    /\ UNCHANGED <<szDoc, szToken>>
    /\ UNCHANGED notSize

\* lines 143-144: the first loop is over; find_elements answers, or raises
SizeToAria ==
    /\ szPc = "candidates"
    /\ szI > Len(SizeCandidates(szDoc, 1))
    /\ \/ /\ szPc' = "aria"
          /\ UNCHANGED szResult
       \/ /\ szPc' = "done"
          /\ szResult' = "False"
    /\ szI' = 1
    /\ UNCHANGED <<szDoc, szToken, szLog>>
    /\ UNCHANGED notSize

\* lines 145-153: one element of the second loop; is_displayed is not asked
SizeAriaVisit ==
    /\ szPc = "aria"
    /\ szI <= Len(SizeAriaEls(szDoc))
    /\ \E end \in ElementEnds :
         LET i == SizeAriaEls(szDoc)[szI]
         IN  IF end # "raises" /\ TokenInText(szToken, szDoc[i].aria)
             THEN /\ szLog' = Append(szLog, SizeClick("size_by_aria", i, end = "done"))
                  /\ IF end = "done"
                     THEN szResult' = "True" /\ szPc' = "done" /\ UNCHANGED szI
                     ELSE szI' = szI + 1 /\ UNCHANGED <<szResult, szPc>>
             ELSE /\ szI' = szI + 1
                  /\ UNCHANGED <<szLog, szResult, szPc>>
    /\ UNCHANGED <<szDoc, szToken>>
    /\ UNCHANGED notSize

\* lines 157-158
SizeReturnFalse ==
    /\ szPc = "aria"
    /\ szI > Len(SizeAriaEls(szDoc))
    /\ szResult' = "False"
    /\ szPc' = "done"
    /\ UNCHANGED <<szDoc, szToken, szI, szLog>>
    /\ UNCHANGED notSize

SizeNext ==
    \/ SizeNoPreference
    \/ SizeFind
    \/ SizeVisit
    \/ SizeToAria
    \/ SizeAriaVisit
    \/ SizeReturnFalse

InitSize == MonIdle /\ CtaIdle /\ FpbIdle /\ FillIdle /\ SubmitIdle /\ WaitIdle /\ SleepIdle /\ BannerIdle /\ FieldIdle /\ SizeInit /\ ExpiryIdle /\ ExtractIdle /\ SimilarIdle /\ DriverIdle /\ AdvanceIdle /\ IframeIdle

SpecSize == InitSize /\ [][SizeNext]_vars

(***************************************************************************)
(* form_filler._normalize_expiry on bounded strings.                       *)
(***************************************************************************)
ExpiryChars == {"1", "2", "6", " ", "-", ".", "/"}
Digits == {"0", "1", "2", "3", "4", "5", "6", "7", "8", "9"}

ExpiryStrings == UNION {[1..n -> ExpiryChars] : n \in 0..MaxExpiryLen}

RECURSIVE StripLeft(_)
StripLeft(v) == IF v # <<>> /\ Head(v) = " " THEN StripLeft(Tail(v)) ELSE v

RECURSIVE StripRight(_)
StripRight(v) ==
    IF v # <<>> /\ v[Len(v)] = " " THEN StripRight(SubSeq(v, 1, Len(v) - 1)) ELSE v

\* str.strip()
Strip(v) == StripRight(StripLeft(v))

RECURSIVE Replace(_, _, _)
\* str.replace(old, new) for a one-character old
Replace(v, old, new) ==
    IF v = <<>> THEN <<>>
    ELSE (IF Head(v) = old THEN new ELSE <<Head(v)>>) \o Replace(Tail(v), old, new)

\* str.isdigit()
IsDigits(v) == v # <<>> /\ \A k \in 1..Len(v) : v[k] \in Digits

\* lines 26-32 without the replacement of "."
normalize_expiry_NoDot(val) ==
    LET v == Replace(Replace(Strip(val), " ", <<>>), "-", <<"/">>)
    IN  IF Len(v) = 4 /\ IsDigits(v)
        THEN SubSeq(v, 1, 2) \o <<"/">> \o SubSeq(v, 3, 4)
        ELSE v

\* lines 26-32
normalize_expiry(val) ==
    LET v == Replace(Replace(Replace(Strip(val), " ", <<>>), "-", <<"/">>), ".", <<"/">>)
    IN  IF Len(v) = 4 /\ IsDigits(v)
        THEN SubSeq(v, 1, 2) \o <<"/">> \o SubSeq(v, 3, 4)
        ELSE v

ExpiryInit ==
    /\ expiry_in \in ExpiryStrings
    /\ expiry_out = <<>>
    /\ expiry_again = <<>>
    /\ exPc = "start"

\* a call of _normalize_expiry (lines 199, 291, 303)
NormalizeOnce ==
    /\ exPc = "start"
    /\ expiry_out' = normalize_expiry(expiry_in)
    /\ exPc' = "once"
    /\ UNCHANGED <<expiry_in, expiry_again>>
    /\ UNCHANGED notExpiry

\* a call of _normalize_expiry on a value it returned
NormalizeAgain ==
    /\ exPc = "once"
    /\ expiry_again' = normalize_expiry(expiry_out)
    /\ exPc' = "twice"
    /\ UNCHANGED <<expiry_in, expiry_out>>
    /\ UNCHANGED notExpiry

ExpiryNext == NormalizeOnce \/ NormalizeAgain

InitExpiry == MonIdle /\ CtaIdle /\ FpbIdle /\ FillIdle /\ SubmitIdle /\ WaitIdle /\ SleepIdle /\ BannerIdle /\ FieldIdle /\ SizeIdle /\ ExpiryInit /\ ExtractIdle /\ SimilarIdle /\ DriverIdle /\ AdvanceIdle /\ IframeIdle

SpecExpiry == InitExpiry /\ [][ExpiryNext]_vars

(***************************************************************************)
(* SpecExtract: ai_detector.extract_candidate_cards on a bounded page.      *)
(*                                                                         *)
(* A block is an element the XPath of line 35 selects.  Its text is known   *)
(* by its number of lines (0: empty after strip), and it has images or not. *)
(***************************************************************************)
BlockShapes == [lines : 0..2, imgs : BOOLEAN]

BlockDocs == UNION {[1..n -> BlockShapes] : n \in 0..MaxBlocks}

\* what reading one block can do: both reads answer, el.text raises
\* (safe_get_text then returns ""), or el.find_elements raises
BlockEnds == {"ok", "text_raises", "imgs_raises"}

\* line 43: `imgs or "\n" in text`
LooksLikeCard(b) == b.imgs \/ b.lines >= 2

\* blocks of d from index `from` on that look like a card
RECURSIVE Qualifying(_, _)
Qualifying(d, from) ==
    IF from > Len(d) THEN <<>>
    ELSE IF d[from].lines > 0 /\ LooksLikeCard(d[from])
         THEN <<from>> \o Qualifying(d, from + 1)
         ELSE Qualifying(d, from + 1)

ExtractInit ==
    /\ blocks \in BlockDocs
    /\ limit \in 1..MaxLimit
    /\ excPc = "start"
    /\ exI = 1
    /\ candidates = <<>>

\* lines 33-35 and 47-49: find_elements answers, or raises
\* WebDriverException and the empty list is returned
ExtractFind ==
    /\ excPc = "start"
    /\ \/ excPc' = "loop"
       \/ excPc' = "done"
    /\ UNCHANGED <<blocks, limit, exI, candidates>>
    /\ UNCHANGED notExtract

\* lines 36-46: one element of the loop
ExtractVisit ==
    /\ excPc = "loop"
    /\ exI <= Len(blocks)
    /\ \E end \in BlockEnds :
         LET text_lines == IF end = "text_raises" THEN 0 ELSE blocks[exI].lines
         IN  candidates' =
                 IF text_lines = 0 THEN candidates
                 ELSE IF end = "imgs_raises" THEN candidates
                 ELSE IF blocks[exI].imgs \/ text_lines >= 2
                      THEN Append(candidates, exI)
                      ELSE candidates
    /\ exI' = exI + 1
    /\ UNCHANGED <<blocks, limit, excPc>>
    /\ UNCHANGED notExtract

\* line 49
ExtractReturn ==
    /\ excPc = "loop"
    /\ exI > Len(blocks)
    /\ excPc' = "done"
    /\ UNCHANGED <<blocks, limit, exI, candidates>>
    /\ UNCHANGED notExtract

ExtractNext ==
    \/ ExtractFind
    \/ ExtractVisit
    \/ ExtractReturn

InitExtract == MonIdle /\ CtaIdle /\ FpbIdle /\ FillIdle /\ SubmitIdle /\ WaitIdle /\ SleepIdle /\ BannerIdle /\ FieldIdle /\ SizeIdle /\ ExpiryIdle /\ ExtractInit /\ SimilarIdle /\ DriverIdle /\ AdvanceIdle /\ IframeIdle

SpecExtract == InitExtract /\ [][ExtractNext]_vars

(***************************************************************************)
(* Claims about extract_candidate_cards.                                   *)
(***************************************************************************)
\* C31: extract_candidate_cards returns at most `limit` candidates, however
\* many qualifying blocks the page has.
C31_AtMostLimit ==
    excPc = "done" => Len(candidates) <= limit


(***************************************************************************)
(* SpecSimilar: ai_detector.similar, that is difflib.SequenceMatcher       *)
(* (None, a.lower(), b.lower()).ratio().  Strings are sequences of          *)
(* characters; positions are counted from 0 as in difflib, so a[i] of the   *)
(* library is a[i + 1] here.  No element is junk: isjunk is None and the    *)
(* automatic junk heuristic needs 200 elements.  A ratio is kept as the     *)
(* fraction <<2 * matches, length>>; the float division of the library is   *)
(* correctly rounded, so two ratios are equal floats exactly when the       *)
(* fractions are equal.                                                     *)
(***************************************************************************)
NameChars == {"a", "b", "c", "A"}

Names == UNION {[1..n -> NameChars] : n \in 0..MaxNameLen}

\* str.lower
Lower(s) == [i \in 1..Len(s) |-> IF s[i] = "A" THEN "a" ELSE s[i]]

\* j2len of find_longest_match: the length of the longest common run that
\* ends at a[i] and b[j] and stays at or above alo and blo
RECURSIVE RunEnding(_, _, _, _, _, _)
RunEnding(a, b, i, j, alo, blo) ==
    IF i < alo \/ j < blo THEN 0
    ELSE IF a[i + 1] # b[j + 1] THEN 0
    ELSE 1 + RunEnding(a, b, i - 1, j - 1, alo, blo)

\* SequenceMatcher.find_longest_match: <<besti, bestj, bestsize>>.  The
\* loops run i upwards and, for each i, j upwards, and replace the best
\* block only by a strictly longer one.
find_longest_match(a, b, alo, ahi, blo, bhi) ==
    LET cells == (alo..(ahi - 1)) \X (blo..(bhi - 1))
        k(c) == RunEnding(a, b, c[1], c[2], alo, blo)
        longest(c) == \A c2 \in cells : k(c2) <= k(c)
        first == CHOOSE c \in cells :
                     /\ longest(c)
                     /\ \A c2 \in cells :
                            longest(c2) => \/ c[1] < c2[1]
                                           \/ c[1] = c2[1] /\ c[2] <= c2[2]
    IN  IF \A c \in cells : k(c) = 0
        THEN <<alo, blo, 0>>
        ELSE <<first[1] - k(first) + 1, first[2] - k(first) + 1, k(first)>>

\* SequenceMatcher.get_matching_blocks, summed as ratio() sums it: the
\* longest block, then the blocks to its left and to its right
RECURSIVE MatchedSize(_, _, _, _, _, _)
MatchedSize(a, b, alo, ahi, blo, bhi) ==
    LET m == find_longest_match(a, b, alo, ahi, blo, bhi)
        i == m[1]
        j == m[2]
        k == m[3]
    IN  IF k = 0 THEN 0
        ELSE k + (IF alo < i /\ blo < j
                  THEN MatchedSize(a, b, alo, i, blo, j) ELSE 0)
               + (IF i + k < ahi /\ j + k < bhi
                  THEN MatchedSize(a, b, i + k, ahi, j + k, bhi) ELSE 0)

\* difflib._calculate_ratio: 2.0 * matches / length, and 1.0 for length 0
calculate_ratio(matches, length) ==
    IF length > 0 THEN <<2 * matches, length>> ELSE <<1, 1>>

\* SequenceMatcher.ratio
Ratio(a, b) ==
    calculate_ratio(MatchedSize(a, b, 0, Len(a), 0, Len(b)), Len(a) + Len(b))

\* lines 27-29
similar(a, b) == Ratio(Lower(a), Lower(b))

SameScore(x, y) == x[1] * y[2] = y[1] * x[2]

SimilarInit ==
    /\ name_a \in Names
    /\ name_b \in Names
    /\ score_ab = <<0, 1>>
    /\ score_ba = <<0, 1>>
    /\ score_aa = <<0, 1>>
    /\ simPc = "start"

\* the calls similar(a, b), similar(b, a) and similar(a, a)
SimilarCalls ==
    /\ simPc = "start"
    /\ score_ab' = similar(name_a, name_b)
    /\ score_ba' = similar(name_b, name_a)
    /\ score_aa' = similar(name_a, name_a)
    /\ simPc' = "done"
    /\ UNCHANGED <<name_a, name_b>>
    /\ UNCHANGED notSimilar

SimilarNext == SimilarCalls

InitSimilar == MonIdle /\ CtaIdle /\ FpbIdle /\ FillIdle /\ SubmitIdle /\ WaitIdle /\ SleepIdle /\ BannerIdle /\ FieldIdle /\ SizeIdle /\ ExpiryIdle /\ ExtractIdle /\ SimilarInit /\ DriverIdle /\ AdvanceIdle /\ IframeIdle

SpecSimilar == InitSimilar /\ [][SimilarNext]_vars

(***************************************************************************)
(* Claims about similar.                                                   *)
(***************************************************************************)
\* similar(a, a) = 1.0, and every score lies in [0, 1]
SimilarReflexiveAndBounded ==
    simPc = "done" =>
        /\ SameScore(score_aa, <<1, 1>>)
        /\ \A s \in {score_ab, score_ba, score_aa} : 0 <= s[1] /\ s[1] <= s[2] /\ s[2] > 0

\* C32: for all strings a and b, similar(a, b) = similar(b, a),
\* similar(a, a) = 1.0 and the score lies in [0, 1].
C32_SimilarSymmetric ==
    /\ SimilarReflexiveAndBounded
    /\ simPc = "done" => SameScore(score_ab, score_ba)


(***************************************************************************)
(* SpecDriver: monitor.create_driver.  A launch attempt is the body of the  *)
(* try of lines 97-112; it ends by returning the driver, by an Exception    *)
(* of one of its calls, or by a KeyboardInterrupt, which `except Exception` *)
(* does not catch.                                                         *)
(***************************************************************************)
\* how an attempt with the undetected driver can end: uc.Chrome answers or raises
UndetectedEnds == {"ok", "uc_chrome_raises", "interrupt"}

\* how an attempt with the standard driver can end: the driver manager's
\* install, webdriver.Chrome or execute_cdp_cmd raises
StandardEnds == {"ok", "install_raises", "chrome_raises", "cdp_raises", "interrupt"}

LaunchEnds(uc) == IF uc THEN UndetectedEnds ELSE StandardEnds

Launch(uc, end) ==
    [driver |-> IF uc THEN "undetected" ELSE "standard", end |-> end]

DriverInit ==
    /\ use_undetected \in BOOLEAN
    /\ fell_back_to_standard = FALSE
    /\ attempts = 0
    /\ last_error = "None"
    /\ launches = <<>>
    /\ cdPc = "try"
    /\ cdResult = "running"

\* lines 113-119 never switching to the standard driver
CreateLaunch_NoFallback ==
    /\ cdPc = "try"
    /\ attempts < max_launch_attempts
    /\ \E end \in LaunchEnds(use_undetected) :
         /\ launches' = Append(launches, Launch(use_undetected, end))
         /\ CASE end = "ok" ->
                   /\ cdResult' = [kind |-> "driver", attempt |-> Len(launches')]
                   /\ cdPc' = "done"
                   /\ UNCHANGED <<attempts, last_error>>
              [] end = "interrupt" ->
                   /\ cdResult' = [kind |-> "KeyboardInterrupt"]
                   /\ cdPc' = "done"
                   /\ UNCHANGED <<attempts, last_error>>
              [] OTHER ->
                   /\ attempts' = attempts + 1
                   /\ last_error' = [attempt |-> Len(launches'), error |-> end]
                   /\ cdPc' = "sleep"
                   /\ UNCHANGED cdResult
    /\ UNCHANGED <<use_undetected, fell_back_to_standard>>
    /\ UNCHANGED notDriver

\* lines 96-119: one launch attempt
CreateLaunch ==
    /\ cdPc = "try"
    /\ attempts < max_launch_attempts
    /\ \E end \in LaunchEnds(use_undetected) :
         /\ launches' = Append(launches, Launch(use_undetected, end))
         /\ CASE end = "ok" ->
                   /\ cdResult' = [kind |-> "driver", attempt |-> Len(launches')]
                   /\ cdPc' = "done"
                   /\ UNCHANGED <<attempts, last_error, use_undetected,
                                  fell_back_to_standard>>
              [] end = "interrupt" ->
                   /\ cdResult' = [kind |-> "KeyboardInterrupt"]
                   /\ cdPc' = "done"
                   /\ UNCHANGED <<attempts, last_error, use_undetected,
                                  fell_back_to_standard>>
              [] OTHER ->
                   /\ attempts' = attempts + 1
                   /\ last_error' = [attempt |-> Len(launches'), error |-> end]
                   /\ IF use_undetected /\ ~fell_back_to_standard
                         /\ attempts' < max_launch_attempts
                      THEN use_undetected' = FALSE /\ fell_back_to_standard' = TRUE
                      ELSE UNCHANGED <<use_undetected, fell_back_to_standard>>
                   /\ cdPc' = "sleep"
                   /\ UNCHANGED cdResult
    /\ UNCHANGED notDriver

\* line 120: time.sleep(2) returns, or a KeyboardInterrupt ends the call
CreateSleep ==
    /\ cdPc = "sleep"
    /\ \/ /\ cdPc' = "try"
          /\ UNCHANGED cdResult
       \/ /\ cdPc' = "done"
          /\ cdResult' = [kind |-> "KeyboardInterrupt"]
    /\ UNCHANGED <<use_undetected, fell_back_to_standard, attempts, last_error, launches>>
    /\ UNCHANGED notDriver

\* line 121: the loop is over
CreateRaise ==
    /\ cdPc = "try"
    /\ attempts >= max_launch_attempts
    /\ cdResult' = [kind |-> "RuntimeError", carries |-> last_error]
    /\ cdPc' = "done"
    /\ UNCHANGED <<use_undetected, fell_back_to_standard, attempts, last_error, launches>>
    /\ UNCHANGED notDriver

DriverNext ==
    \/ CreateLaunch
    \/ CreateSleep
    \/ CreateRaise

InitDriver == MonIdle /\ CtaIdle /\ FpbIdle /\ FillIdle /\ SubmitIdle /\ WaitIdle /\ SleepIdle /\ BannerIdle /\ FieldIdle /\ SizeIdle /\ ExpiryIdle /\ ExtractIdle /\ SimilarIdle /\ DriverInit /\ AdvanceIdle /\ IframeIdle

SpecDriver == InitDriver /\ [][DriverNext]_vars

(***************************************************************************)
(* Claims about create_driver.                                             *)
(***************************************************************************)
LaunchFailed(k) == launches[k].end \notin {"ok", "interrupt"}

FailedLaunches == {k \in 1..Len(launches) : LaunchFailed(k)}

\* C34: create_driver makes at most 3 launch attempts and returns the driver
\* of the first attempt that succeeds; when the first attempt, with the
\* undetected driver, fails, every later attempt uses the standard driver, and
\* no attempt goes back to the undetected driver; after 3 failed attempts the
\* call raises an error that carries the last failure and does not return.
C34_LaunchAttempts ==
    /\ Len(launches) <= max_launch_attempts
    /\ \A k \in 1..Len(launches) : k < Len(launches) => LaunchFailed(k)
    /\ (cdPc = "done" /\ cdResult.kind = "driver") =>
          /\ launches # <<>>
          /\ launches[Len(launches)].end = "ok"
          /\ cdResult.attempt = Len(launches)
    /\ (launches # <<>> /\ launches[1].driver = "undetected" /\ LaunchFailed(1)) =>
          \A k \in 2..Len(launches) : launches[k].driver = "standard"
    /\ \A k \in 1..Len(launches) :
          launches[k].driver = "standard" =>
              \A k2 \in k..Len(launches) : launches[k2].driver = "standard"
    /\ (cdPc = "done" /\ Cardinality(FailedLaunches) = max_launch_attempts) =>
          /\ cdResult.kind # "driver"
          /\ cdResult.kind = "RuntimeError" =>
                cdResult.carries = [attempt |-> max_launch_attempts,
                                    error |-> launches[max_launch_attempts].end]
    /\ (cdPc = "done" /\ cdResult.kind = "RuntimeError") =>
          Cardinality(FailedLaunches) = max_launch_attempts

\* the undetected driver failed, the standard driver failed twice, and the
\* call raised the error of the third attempt
C34_Witness ==
    /\ cdPc = "done"
    /\ cdResult.kind = "RuntimeError"
    /\ launches[1].driver = "undetected"
    /\ launches[3].driver = "standard"
    /\ launches[3].end = "cdp_raises"


(***************************************************************************)
(* SpecAdvance: the controls fill_and_submit_form clicks to move the        *)
(* checkout on, on a bounded page.  A click that succeeds may load another  *)
(* page.                                                                   *)
(***************************************************************************)
AdvanceShapes ==
    { [tag |-> "button", type |-> "", cls |-> <<>>, txt |-> <<"pay", "now">>],
      [tag |-> "button", type |-> "", cls |-> <<>>, txt |-> <<"continue">>],
      [tag |-> "a",      type |-> "", cls |-> <<>>, txt |-> <<"details">>] }

\* the controls lie outside the footer
AdvanceElements ==
    { [tag |-> sh.tag, type |-> sh.type, cls |-> sh.cls, txt |-> sh.txt,
       displayed |-> d, footer |-> FALSE] :
        sh \in AdvanceShapes, d \in BOOLEAN }

AdvancePages == UNION {[1..n -> AdvanceElements] : n \in 0..MaxAdvanceEls}

\* line 534: the keywords looked for in the text of a control
intermediate_txt_keywords ==
    { <<"continue">>, <<"next">>, <<"review">>, <<"proceed">>, <<"shipping">>,
      <<"payment">>, <<"pay", "now">> }

\* line 535: the keywords looked for in its outerHTML
intermediate_outer_keywords ==
    { <<"continue">>, <<"next">>, <<"review">>, <<"proceed">> }

\* lines 528-535: the control is a displayed button or link with a keyword
IsIntermediateCta(e) ==
    /\ e.tag \in {"button", "a"}
    /\ e.displayed
    /\ \/ AnyRaw(intermediate_txt_keywords, e.txt)
       \/ AnyRaw(intermediate_outer_keywords, SubmitOuter(e))

RECURSIVE IntermediateCtas(_, _)
\* the controls of d from index `from` on that the loop of line 529 clicks
IntermediateCtas(d, from) ==
    IF from > Len(d) THEN <<>>
    ELSE IF IsIntermediateCta(d[from])
         THEN <<from>> \o IntermediateCtas(d, from + 1)
         ELSE IntermediateCtas(d, from + 1)

AdvanceInit ==
    /\ adv_page \in AdvancePages
    /\ advPc = "contact"
    /\ advLog = <<>>

\* an entry of the log: the step, and the control it clicked (none: <<>>)
AdvStep(name, clicked) == [step |-> name, clicked |-> clicked]

\* a step that clicks none of the controls of the model
AdvPlain(at, name, to) ==
    /\ advPc = at
    /\ advLog' = Append(advLog, AdvStep(name, <<>>))
    /\ advPc' \in to
    /\ UNCHANGED adv_page
    /\ UNCHANGED notAdvance

\* lines 525-541, _click_intermediate_ctas: the first control whose click
\* succeeds ends the function; safe_click may refuse every one, and an error
\* of a driver call ends the function without a click (k = 0)
AdvAdvance(at, to) ==
    /\ advPc = at
    /\ LET ctas == IntermediateCtas(adv_page, 1)
       IN  \E k \in 0..Len(ctas) :
              IF k = 0
              THEN /\ advLog' = Append(advLog, AdvStep("IntermediateAdvance", <<>>))
                   /\ UNCHANGED adv_page
              ELSE /\ advLog' = Append(advLog, AdvStep("IntermediateAdvance",
                                                       <<adv_page[ctas[k]]>>))
                   /\ adv_page' \in AdvancePages
    /\ advPc' = to
    /\ UNCHANGED notAdvance

\* line 572
AdvContact == AdvPlain("contact", "ContactAndAddress", {"advance1"})

\* line 574
AdvAdvanceAfterContact == AdvAdvance("advance1", "shipping")

\* lines 578-579: the advance of line 580 follows only a selected method
AdvShipping == AdvPlain("shipping", "ShippingMethod", {"advance2", "cards"})

\* line 580
AdvAdvanceAfterShipping == AdvAdvance("advance2", "cards")

\* lines 583-588: the card tab, the inline card fields, the framed card fields
AdvCardFields == AdvPlain("cards", "CardFields", {"terms"})

\* line 593
AdvTerms == AdvPlain("terms", "TermsAcceptance", {"advance3"})

\* line 598
AdvAdvanceBeforeSubmit == AdvAdvance("advance3", "submit")

\* lines 600-602: _dismiss_overlays, then click_submit_button clicks the
\* best-ranked candidate whose click succeeds
AdvSubmit ==
    /\ advPc = "submit"
    /\ LET ranked == SortedCandidates(adv_page)
       IN  \E k \in 0..Len(ranked) :
              advLog' = Append(advLog, AdvStep("FinalSubmit",
                                   IF k = 0 THEN <<>> ELSE <<adv_page[ranked[k]]>>))
    /\ advPc' = "done"
    /\ UNCHANGED adv_page
    /\ UNCHANGED notAdvance

AdvanceNext ==
    \/ AdvContact
    \/ AdvAdvanceAfterContact
    \/ AdvShipping
    \/ AdvAdvanceAfterShipping
    \/ AdvCardFields
    \/ AdvTerms
    \/ AdvAdvanceBeforeSubmit
    \/ AdvSubmit

InitAdvance == MonIdle /\ CtaIdle /\ FpbIdle /\ FillIdle /\ SubmitIdle /\ WaitIdle /\ SleepIdle /\ BannerIdle /\ FieldIdle /\ SizeIdle /\ ExpiryIdle /\ ExtractIdle /\ SimilarIdle /\ DriverIdle /\ AdvanceInit /\ IframeIdle

SpecAdvance == InitAdvance /\ [][AdvanceNext]_vars

(***************************************************************************)
(* Claims about the advances of the checkout progression.                  *)
(***************************************************************************)
\* the named step has run before the k-th entry of the log
RanBefore(name, k) == \E i \in 1..(k - 1) : advLog[i].step = name

\* C38: during fill_and_submit_form no control that qualifies as a
\* final-submit control is clicked before the CardFields and TermsAcceptance
\* steps have run: the IntermediateAdvance steps before them never click one.
C38_NoFinalSubmitBeforeCardFields ==
    \A k \in 1..Len(advLog) :
        (advLog[k].clicked # <<>> /\ IsSubmitCandidate(advLog[k].clicked[1])) =>
            RanBefore("CardFields", k) /\ RanBefore("TermsAcceptance", k)


(***************************************************************************)
(* SpecIframe: the browsing context of the driver while                    *)
(* form_filler._try_fill_card_iframes visits the payment frames, and in    *)
(* the steps of fill_and_submit_form that follow it.                       *)
(***************************************************************************)
\* lines 272-273: a frame is entered when its src, name, title or outerHTML
\* holds one of the hints
IframeShapes == [hinted : BOOLEAN]

IframeDocs == UNION {[1..n -> IframeShapes] : n \in 0..MaxFrames}

\* the outcomes of a driver call that the handlers of lines 277 and 314 tell apart
SwitchEnds == {"ok", "NoSuchFrameException", "WebDriverException"}

ExitEnds == {"ok", "WebDriverException"}

\* where a failed switch_to.default_content() can leave the driver
AfterFailedExit == {context, <<>>}

IframeLogged(at) == Append(ifLog, [at |-> at, ctx |-> context])

\* fill_and_submit_form line 588: the call of _try_fill_card_iframes
IframeInit ==
    /\ iframes \in IframeDocs
    /\ context = <<>>
    /\ ifI = 0
    /\ ifPc = "find"
    /\ ifFilled = 0
    /\ ifLog = <<>>
    /\ exit_failed = FALSE

\* lines 258-265: find_elements(By.TAG_NAME, "iframe"); an exception or an
\* empty list returns 0
IframeFind ==
    /\ ifPc = "find"
    /\ \E found \in BOOLEAN :
        IF found /\ iframes # <<>>
        THEN ifI' = 1 /\ ifPc' = "loop"
        ELSE ifI' = ifI /\ ifPc' = "returned"
    /\ UNCHANGED <<iframes, context, ifFilled, ifLog, exit_failed>>
    /\ UNCHANGED <<monVars, ctaVars, fpbVars, notIframe>>

\* lines 267-274: the attributes of the next frame are read; an exception goes
\* to the handler of line 314, a frame without a hint is passed over
IframeInspect ==
    /\ ifPc = "loop"
    /\ ifI <= Len(iframes)
    /\ ifLog' = IframeLogged("inspect")
    /\ \E read \in ExitEnds :
        IF read # "ok"
        THEN ifI' = ifI /\ ifPc' = "handler"
        ELSE IF iframes[ifI].hinted
             THEN ifI' = ifI /\ ifPc' = "switch"
             ELSE ifI' = ifI + 1 /\ ifPc' = "loop"
    /\ UNCHANGED <<iframes, context, ifFilled, exit_failed>>
    /\ UNCHANGED <<monVars, ctaVars, fpbVars, notIframe>>

\* lines 275-278: switch_to.frame(frame); NoSuchFrameException continues with
\* the next frame, any other exception goes to the handler of line 314
IframeSwitch ==
    /\ ifPc = "switch"
    /\ \E end \in SwitchEnds :
        CASE end = "ok" ->
                /\ context' = <<ifI>>
                /\ ifI' = ifI
                /\ ifPc' = "fill"
          [] end = "NoSuchFrameException" ->
                /\ context' = context
                /\ ifI' = ifI + 1
                /\ ifPc' = "loop"
          [] OTHER ->
                /\ context' = context
                /\ ifI' = ifI
                /\ ifPc' = "handler"
    /\ UNCHANGED <<iframes, ifFilled, ifLog, exit_failed>>
    /\ UNCHANGED <<monVars, ctaVars, fpbVars, notIframe>>

\* lines 279-311: inside the frame the number, the expiry (one input, or a
\* month and a year input) and the security code are filled; every failure
\* is swallowed where it happens.  A KeyboardInterrupt is not an Exception:
\* it leaves the try block through the finally clause.
IframeFill ==
    /\ ifPc = "fill"
    /\ \E number \in 0..1, exp \in 0..2, cvc \in 0..1, kbd \in BOOLEAN :
        /\ ifFilled' = ifFilled + number + exp + cvc
        /\ ifPc' = IF kbd THEN "unwinding" ELSE "finally"
    /\ UNCHANGED <<iframes, context, ifI, ifLog, exit_failed>>
    /\ UNCHANGED <<monVars, ctaVars, fpbVars, notIframe>>

\* lines 312-313: finally: switch_to.default_content().  When it raises, its
\* exception replaces the one in flight and is caught at line 314.
IframeFinally ==
    /\ ifPc \in {"finally", "unwinding"}
    /\ \E end \in ExitEnds :
        IF end = "ok"
        THEN /\ context' = <<>>
             /\ ifI' = IF ifPc = "finally" THEN ifI + 1 ELSE ifI
             /\ ifPc' = IF ifPc = "finally" THEN "loop" ELSE "raised"
        ELSE /\ context' \in AfterFailedExit
             /\ ifI' = ifI
             /\ ifPc' = "handler"
    /\ UNCHANGED <<iframes, ifFilled, ifLog, exit_failed>>
    /\ UNCHANGED <<monVars, ctaVars, fpbVars, notIframe>>

\* lines 314-319: except Exception: switch_to.default_content(), whose own
\* exception is passed over; continue
IframeHandler ==
    /\ ifPc = "handler"
    /\ \E end \in ExitEnds :
        IF end = "ok"
        THEN context' = <<>> /\ exit_failed' = exit_failed
        ELSE context' \in AfterFailedExit /\ exit_failed' = TRUE
    /\ ifI' = ifI + 1
    /\ ifPc' = "loop"
    /\ UNCHANGED <<iframes, ifFilled, ifLog>>
    /\ UNCHANGED <<monVars, ctaVars, fpbVars, notIframe>>

\* line 320: return filled
IframeReturn ==
    /\ ifPc = "loop"
    /\ ifI > Len(iframes)
    /\ ifPc' = "returned"
    /\ UNCHANGED <<iframes, context, ifI, ifFilled, ifLog, exit_failed>>
    /\ UNCHANGED <<monVars, ctaVars, fpbVars, notIframe>>

\* fill_and_submit_form lines 593-595: _accept_terms runs in the context the
\* helper left
IframeTerms ==
    /\ ifPc = "returned"
    /\ ifLog' = IframeLogged("TermsAcceptance")
    /\ ifPc' = "terms"
    /\ UNCHANGED <<iframes, context, ifI, ifFilled, exit_failed>>
    /\ UNCHANGED <<monVars, ctaVars, fpbVars, notIframe>>

\* fill_and_submit_form lines 598-602: the advance, the overlay clearing and
\* click_submit_button switch no context
IframeSubmit ==
    /\ ifPc = "terms"
    /\ ifLog' = IframeLogged("FinalSubmit")
    /\ ifPc' = "done"
    /\ UNCHANGED <<iframes, context, ifI, ifFilled, exit_failed>>
    /\ UNCHANGED <<monVars, ctaVars, fpbVars, notIframe>>

IframeNext ==
    \/ IframeFind
    \/ IframeInspect
    \/ IframeSwitch
    \/ IframeFill
    \/ IframeFinally
    \/ IframeHandler
    \/ IframeReturn
    \/ IframeTerms
    \/ IframeSubmit

InitIframe == MonIdle /\ CtaIdle /\ FpbIdle /\ FillIdle /\ SubmitIdle /\ WaitIdle /\ SleepIdle /\ BannerIdle /\ FieldIdle /\ SizeIdle /\ ExpiryIdle /\ ExtractIdle /\ SimilarIdle /\ DriverIdle /\ AdvanceIdle /\ IframeInit

SpecIframe == InitIframe /\ [][IframeNext]_vars

(***************************************************************************)
(* Claims about the payment frames.                                        *)
(***************************************************************************)
\* the helper has returned, or a later step of fill_and_submit_form runs
IframeReturned == ifPc \in {"returned", "terms", "done"}

\* every frame inspection and every later step found the driver in `ctx`
AlwaysIn(ctx) == \A k \in 1..Len(ifLog) : ifLog[k].ctx = ctx

\* on every path on which the driver did not refuse the switch back twice in
\* a row (a failed frame switch, a failure while filling, one failed exit)
\* the driver is in the top-level document before each frame inspection,
\* when the helper returns, and in TermsAcceptance and FinalSubmit
BalancedUnlessExitFailed ==
    ~exit_failed => /\ AlwaysIn(<<>>)
                    /\ (IframeReturned \/ ifPc = "loop") => context = <<>>

\* C39: entering and exiting payment frames is balanced: whenever
\* _try_fill_card_iframes returns, and before it inspects the next frame, the
\* driver's context is the top-level document again, on every path, so
\* TermsAcceptance and FinalSubmit always run against the top-level document.
C39_FramesBalanced ==
    /\ AlwaysIn(<<>>)
    /\ IframeReturned => context = <<>>

(***************************************************************************)
(* Claims about the monitoring orchestrator (checked under Spec).          *)
(***************************************************************************)
\* C1: with stop_on_success enabled find_product_and_buy returns true at most
\* once per monitoring session, and in every session purchase_initiated, once
\* true, is never set back to false.
C1_AtMostOnePurchase ==
    [][ /\ (stop_on_success => fpbTrueCount' <= 1)
        /\ (purchase_initiated => purchase_initiated') ]_vars

C1_Witness ==
    /\ stop_on_success
    /\ fpbTrueCount = 1
    /\ purchase_initiated
    /\ cycle >= 2
    /\ pc = "done"

\* C2: with stop_on_success enabled, as soon as find_product_and_buy returns
\* true the function leaves with the value true: no remaining URL is visited
\* and no navigation, refresh, scan or sleep follows.
C2_StopsImmediately ==
    (stop_on_success /\ fpbTrueCount >= 1) =>
        /\ pc \in {"finally", "done"}
        /\ pc = "finally" => pending = "True"
        /\ pc = "done" => result = "True"
        /\ afterOps \subseteq {"quit"}

C2_Witness ==
    /\ stop_on_success
    /\ fpbTrueCount = 1
    /\ pc = "done"
    /\ result = "True"
    /\ idx < NumUrls

\* C3: with stop_on_success disabled, once purchase_initiated is true
\* find_product_and_buy is never invoked again, neither for the remaining URLs
\* of the cycle nor in a later cycle.
C3_NoRescan == ~stop_on_success => "scan" \notin afterOps

C3_Witness ==
    /\ ~stop_on_success
    /\ purchase_initiated
    /\ NumUrls >= 2
    /\ cycle >= 2
    /\ pc = "cycle_end"
    /\ "skip_scan" \in afterOps

\* C4: with stop_on_success disabled, after a purchase has been initiated the
\* orchestrator issues no driver.get and no refresh and only sleeps
\* post_purchase_idle between cycles, whatever the number of monitored URLs.
C4_OnlyIdles ==
    ~stop_on_success =>
        afterOps \cap {"get", "refresh", "settle_sleep", "retry_sleep"} = {}

\* C5: a KeyboardInterrupt raised anywhere inside the monitoring loop,
\* the recovery refresh and sleep after an exception included, makes the
\* function return the current value of purchase_initiated; it is never
\* propagated to the caller.
C5_InterruptReturnsFlag ==
    (pc = "done" /\ interrupted \in {"loop", "recovery"}) =>
        result = BoolStr(purchase_initiated)

\* a driver.get that raised an Exception: at line 254, or at line 278
InitialNavFailed == pc = "initial_get" /\ pc' = "finally" /\ pending' = "False"
CycleNavFailed ==
    /\ pc = "url"
    /\ current_url # idx
    /\ pc' \notin {"gate", "recover"}
    /\ interrupted' = interrupted

\* C22: a navigation failure in check_product_and_buy (the initial load of
\* the primary URL, or a switch to a URL inside a cycle) is non-terminal: the
\* failing URL is skipped for the current cycle, find_product_and_buy is not
\* invoked for it, and the loop continues with the next URL or the next cycle.
C22_NavFailureNonTerminal ==
    [][(InitialNavFailed \/ CycleNavFailed) =>
            /\ pc' \in {"cycle", "url", "cycle_end"}
            /\ fpbTrueCount' = fpbTrueCount]_vars

\* the positions inside the `while True` loop
LoopPcs == {"cycle", "url", "gate", "cycle_end", "recover"}
EndsLoop == pc \in LoopPcs /\ pc' = "finally"

\* the three ways out of the loop
EndsBySuccess ==
    pc = "gate" /\ stop_on_success /\ purchase_initiated' /\ pending' = "True"
EndsByDriverLoss ==
    pc = "recover" /\ pending' = "None" /\ interrupted' = interrupted
EndsByInterrupt == interrupted = "none" /\ interrupted' \in {"loop", "recovery"}

\* C23: once the monitoring loop has been entered it ends only by a purchase
\* being initiated with stop_on_success set, by driver loss (the recovery
\* refresh fails) or by external interruption; every other exception raised
\* in a cycle is followed by a refresh, a short sleep and a further cycle.
C23_LoopEndsOnlyBy ==
    [][ /\ EndsLoop => (EndsBySuccess \/ EndsByDriverLoss \/ EndsByInterrupt)
        /\ (pc \in LoopPcs /\ pc' \notin LoopPcs) => EndsLoop
        /\ (pc = "recover" /\ ~EndsLoop) => (pc' = "cycle" /\ cycle' = cycle)
        /\ (pc' = "recover" /\ pc # "recover") => pc \in {"url", "gate", "cycle_end"} ]_vars

\* the loop was left because the driver was lost
C23_Witness ==
    /\ pc = "done"
    /\ result = "None"
    /\ cycle >= 2
    /\ interrupted = "none"

\* C24: challenge detection runs after every successful navigation and after
\* every refresh, the recovery refresh after an exception included, before
\* the next invocation of find_product_and_buy.
C24_DetectionBeforeScan == (pc = "gate" /\ ~ScanSkipped) => ~undetected

\* C25: on every exit path after the driver was created the browser is
\* closed if and only if close_on_finish is true; with close_on_finish false
\* it is never closed, and it is never closed while the loop is running.
C25_ClosedIffConfigured ==
    /\ (pc = "done" /\ browser # "none") => (browser = "closed" <=> close_on_finish)
    /\ pc # "done" => browser # "closed"

\* C25 as amended: driver.quit() is called if and only if close_on_finish
\* is true, and only in the finally clause; an error of quit is swallowed,
\* so the browser is closed only if close_on_finish is true.
C25_QuitIffConfigured ==
    /\ (pc = "done" /\ browser # "none") => (quit_called <=> close_on_finish)
    /\ browser = "closed" => (close_on_finish /\ quit_called)
    /\ pc # "done" => (~quit_called /\ browser # "closed")

\* driver.quit() was called after the loop ended, and raised
C25_Witness ==
    /\ pc = "done"
    /\ close_on_finish
    /\ quit_called
    /\ browser = "open"
    /\ cycle >= 1

\* check_product_and_buy has returned a value (it has not ended by raising)
Returned == pc = "done" /\ result \notin {"RuntimeError", "KeyboardInterrupt"}

\* C35: on every terminating path of check_product_and_buy (stop on success,
\* interruption, driver loss, initial navigation failure, robots block) the
\* returned value is a boolean equal to purchase_initiated at that moment;
\* after driver loss with a purchase already initiated it is True.
C35_ReturnsPurchaseFlag ==
    Returned =>
        /\ result \in {"True", "False"}
        /\ result = BoolStr(purchase_initiated)

\* C36: when a buy CTA click has succeeded inside find_product_and_buy and an
\* external interrupt arrives before that call returns, check_product_and_buy
\* still reports the purchase as initiated: it returns True.
C36_InterruptAfterClickReturnsTrue ==
    (pc = "done" /\ clicked_in_call) => result = "True"

\* C37: the orchestrator never invokes find_product_and_buy on a page on
\* which a challenge is still detected: after _handle_detected_challenge has
\* returned, the scan proceeds only if the challenge has cleared.
C37_NoScanWhileChallenged ==
    (pc = "gate" /\ ~ScanSkipped /\ ~undetected) => ~challenge

(***************************************************************************)
(* Claims about find_product_and_buy (checked under SpecFpb).              *)
(***************************************************************************)
\* the element matches a deny pattern in its text, its markup or its href
Denied(e) ==
    \/ AnyRaw(find_global_buy_ctas_deny, e.txt)
    \/ AnyRaw(find_global_buy_ctas_deny, outerHTML(e))
    \/ AnyRaw(find_global_buy_ctas_deny, e.href)

\* the element is a buy/add/checkout CTA: its text or markup matches an allow
\* pattern of a selection function and it matches no deny pattern
BuyCta(e) ==
    /\ ~Denied(e)
    /\ \/ AnyRaw(find_buy_button_in_patterns, e.txt)
       \/ AnyBounded(find_global_buy_ctas_patterns, e.txt)
       \/ AnyBounded(find_global_buy_ctas_patterns, outerHTML(e))

\* the clicks of the invocation that succeeded
SucceededClicks == {k \in 1..Len(clicks) : clicks[k].ok}

\* C6: find_product_and_buy returns true if and only if a click succeeded on
\* a buy/add/checkout CTA during the invocation; successful clicks on other
\* elements never by themselves produce true.
C6_TrueIffBuyCtaClicked ==
    fpc = "done" =>
        (fresult = "True" <=> \E k \in SucceededClicks : BuyCta(clicks[k].el))

\* the best score stayed below the threshold in every pass of the invocation
\* (best_score never decreases)
BelowThreshold == best_match # NoMatch /\ best_score < settings.min_match_score

\* the settings other than min_match_score and max_scrolls have their defaults
OtherSettingsDefault ==
    /\ settings.allow_global_cta_when_name_found
    /\ ~settings.allow_global_cta_always
    /\ settings.dismiss_banners

\* C7 as stated: if the best score stays below min_match_score in every pass,
\* find_product_and_buy returns false and no click on any element occurs, with
\* all other settings at their defaults and whatever the page text contains.
C7_NoClickBelowThreshold ==
    (fpc = "done" /\ fresult # "Exception" /\ BelowThreshold /\ OtherSettingsDefault) =>
        fresult = "False" /\ clicks = <<>>

\* the global buy path is open on the page the invocation started on
GlobalOpen ==
    \/ settings.allow_global_cta_always
    \/ settings.allow_global_cta_when_name_found /\ page0.hasName

\* C7 amended: if the best score stays below min_match_score in every pass and
\* the global buy path is closed (allow_global_cta_always is false, and
\* allow_global_cta_when_name_found is false or the page text lacks a token of
\* the name), find_product_and_buy does not return true, the page is the one
\* it started on, and the only clicks of the invocation are those of
\* dismiss_banners: none at all when the dismiss_banners setting is false.
C7_BelowThresholdNoBuyClick ==
    (fpc = "done" /\ BelowThreshold /\ ~GlobalOpen) =>
        /\ fresult \in {"False", "Exception"}
        /\ page = page0
        /\ \A k \in 1..Len(clicks) : clicks[k].desc = "dismiss_banner"
        /\ ~settings.dismiss_banners => clicks = <<>>
        /\ checkoutCalls = 0 /\ fillCalls = 0

C7_Witness ==
    /\ fpc = "done"
    /\ fresult = "False"
    /\ BelowThreshold
    /\ ~GlobalOpen
    /\ page0.hasName
    /\ page0.cards = <<[kind |-> "add", score |-> min_score_default - 1]>>
    /\ page0.outside = <<AddToBag>>
    /\ settings.max_scrolls = MaxScrolls
    /\ scrolls = MaxScrolls
    /\ Len(clicks) = 1
    /\ clicks[1].desc = "dismiss_banner"
    /\ clicks[1].ok

\* the page holds one card, matched at or above the threshold, whose only
\* control is a "Sold Out" button, and no button or link outside the card
SoldOutOnly ==
    /\ Len(page0.cards) = 1
    /\ page0.cards[1].kind = "sold"
    /\ page0.cards[1].score >= settings.min_match_score
    /\ page0.outside = <<>>

BuyClickDescs ==
    {"global_buy_any", "inline_buy", "near_buy", "pdp_add_to_cart", "global_buy",
     "global_buy_list"}

\* the place of a click of the matched-card path in the order of lines 421-512:
\* inline, near, product page (open, then its CTA), document-wide; 0 otherwise
OptionRank(desc) ==
    CASE desc = "inline_buy" -> 1
      [] desc = "near_buy" -> 2
      [] desc \in {"open_pdp_anchor", "open_pdp_image"} -> 3
      [] desc \in {"pdp_add_to_cart", "global_buy"} -> 4
      [] desc = "global_buy_list" -> 5
      [] OTHER -> 0

\* the clicks of the log made by the matched-card path
MatchedPathClicks == {k \in 1..Len(clicks) : OptionRank(clicks[k].desc) > 0}

\* the successful clicks of the log on a buy CTA candidate
SucceededBuyClicks ==
    {k \in 1..Len(clicks) : clicks[k].ok /\ clicks[k].desc \in BuyClickDescs}

\* the options of one pass are tried in the fixed order, each at most once
OptionsInOrder ==
    \A k, l \in MatchedPathClicks :
        (k < l /\ clicks[k].pass = clicks[l].pass) =>
            OptionRank(clicks[k].desc) < OptionRank(clicks[l].desc)

\* a successful click on a buy CTA candidate is the last such click, and the
\* only clicks after it are those of proceed_to_checkout
FirstSuccessEnds ==
    \A k \in SucceededBuyClicks :
        /\ fpc \in {"checkout", "fill", "done"}
        /\ fpc = "done" => fresult = "True"
        /\ \A l \in (k + 1)..Len(clicks) : clicks[l].desc = "checkout_transition"

\* the step appends a click that failed
ClickFailedStep ==
    /\ Len(clicks') > Len(clicks)
    /\ ~clicks'[Len(clicks')].ok

\* a failed click does not raise and does not end the invocation
FailedClickFallsThrough ==
    ClickFailedStep => fresult' = "running" /\ fpc' \notin {"checkout", "fill", "done"}

\* C11: within one scan pass the matched-card path tries its click options in
\* the fixed order inline, near, product page, document-wide; a failed click
\* falls through without raising; the first successful click on a buy CTA ends
\* the invocation, so at most one buy CTA click succeeds per invocation.
C11_OptionsInOrder ==
    /\ [](OptionsInOrder /\ FirstSuccessEnds /\ Cardinality(SucceededBuyClicks) <= 1)
    /\ [][FailedClickFallsThrough]_vars

C11_Witness ==
    /\ fpc = "done"
    /\ fresult = "True"
    /\ \E k \in 1..(Len(clicks) - 1) :
          /\ clicks[k].desc = "inline_buy" /\ ~clicks[k].ok
          /\ clicks[k + 1].desc = "near_buy" /\ clicks[k + 1].ok
          /\ clicks[k].pass = clicks[k + 1].pass

\* C12: after every successful buy CTA click proceed_to_checkout is invoked
\* exactly once and afterwards fill_and_submit_form exactly once if cc_info is
\* non-empty and not at all if it is empty, whether or not proceed_to_checkout
\* clicked a checkout CTA; only then does find_product_and_buy return true.
C12_CheckoutThenFill ==
    /\ checkoutCalls =
          (IF SucceededBuyClicks # {} /\ fpc \in {"fill", "done"} THEN 1 ELSE 0)
    /\ fillCalls =
          (IF SucceededBuyClicks # {} /\ fpc = "done" /\ cc_info THEN 1 ELSE 0)
    /\ SucceededBuyClicks # {} => fpc \in {"checkout", "fill", "done"}
    /\ fresult = "True" => SucceededBuyClicks # {} /\ fpc = "done"
    /\ (SucceededBuyClicks # {} /\ fpc = "done") => fresult = "True"

C12_Witness ==
    /\ fpc = "done"
    /\ fresult = "True"
    /\ cc_info
    /\ checkoutCalls = 1
    /\ fillCalls = 1
    /\ clicks[Len(clicks)].desc = "pdp_add_to_cart"

\* the step decides, after the scoring of a pass, whether the global buy path
\* is attempted
GateStep == fpc = "pass" /\ fpc' \in {"global", "matched"}

\* the step is a click of the global buy path
GlobalClickStep ==
    /\ Len(clicks') > Len(clicks)
    /\ clicks'[Len(clicks')].desc = "global_buy_any"

PassesBegun ==
    IF fpc \in {"call", "start", "pass", "done", "off"} THEN pass_i ELSE pass_i + 1

\* what holds of the passes at every moment of the invocation
PassesBounded ==
    /\ PassesBegun <= settings.max_scrolls
    /\ scrolls = pass_i
    /\ (fpc = "done" /\ fresult = "False") =>
          /\ SucceededBuyClicks = {}
          /\ pass_i = settings.max_scrolls
          /\ scrolls = settings.max_scrolls
    /\ (fpc = "done" /\ SucceededBuyClicks = {}) => fresult \in {"False", "Exception"}
    /\ settings.max_scrolls = 0 =>
          /\ best_match = NoMatch
          /\ \A k \in 1..Len(clicks) : clicks[k].desc = "dismiss_banner"
          /\ fresult \in {"running", "False"}

ActedOnMatch == fpc \in {"near", "pdp"}

\* C15: candidates are recomputed every scan pass and never cached: the
\* element reference the matched-card path acts on in pass k was extracted in
\* pass k itself, never in an earlier pass and never before a navigation.
C15_MatchExtractedThisPass ==
    ActedOnMatch => best_match.pass = pass_i + 1 /\ best_match.gen = gen


(***************************************************************************)
(* Claims about the running maximum (checked under SpecFpbScan).           *)
(***************************************************************************)
\* the places of `scored` that hold a candidate of the score s
ScoredAt(s) == {k \in 1..Len(scored) : scored[k].score = s}

\* best_match is the first candidate scored so far that has the largest
\* score; it stays None while no candidate scored above 0.0
BestIsRunningMaximum ==
    /\ \A k \in 1..Len(scored) : scored[k].score <= best_score
    /\ best_match = NoMatch => best_score = 0
    /\ best_match # NoMatch =>
          /\ best_match.score = best_score
          /\ ScoredAt(best_score) # {}
          /\ \E k \in ScoredAt(best_score) :
                /\ scored[k] = best_match
                /\ \A k2 \in ScoredAt(best_score) : k <= k2

\* a step that enters the matched-card path (line 415 holds)
EntersMatchedPath == fpc = "matched" /\ fpc' \notin {"matched", "scroll"}

\* C33: across the passes of one invocation best_score never decreases,
\* best_match (when set) is the first candidate with the largest score among
\* all candidates scored so far and that score is best_score, and the
\* matched-card path is entered in a pass only if best_score >= min_match_score.
C33_RunningMaximum ==
    /\ [](BestIsRunningMaximum)
    /\ [][best_score' >= best_score]_vars
    /\ [][EntersMatchedPath =>
             best_match # NoMatch /\ best_score >= settings.min_match_score]_vars

\* two passes have scored: the lower-scored first candidate of the page lost
\* to the second, and the second pass, scoring both again, kept the match of
\* the first pass
C33_Witness ==
    /\ pass_i = 1
    /\ fpc = "matched"
    /\ Len(scored) = 4
    /\ scored[1].score < scored[2].score
    /\ best_match = scored[2]
    /\ best_score >= settings.min_match_score

(***************************************************************************)
(* Claims about the checkout progression (checked under SpecFill).         *)
(***************************************************************************)
\* the steps in their forward order; the advance after ShippingMethod is there
\* only if a shipping method was selected
StepOrder(shipped) ==
    <<"ContactAndAddress", "IntermediateAdvance", "ShippingMethod">>
    \o (IF shipped THEN <<"IntermediateAdvance">> ELSE <<>>)
    \o <<"PaymentMethodTab", "CardFieldsInline", "CardFieldsFrames", "TermsAcceptance",
         "IntermediateAdvance", "OverlayClear", "FinalSubmit", "ConfirmationWait">>

\* the names of the steps run so far
StepsRun == [k \in 1..Len(ffLog) |-> ffLog[k].step]

IsPrefix(a, b) == Len(a) <= Len(b) /\ \A k \in 1..Len(a) : a[k] = b[k]

\* the places of the log where the named step ran
RunsOf(name) == {k \in 1..Len(ffLog) : ffLog[k].step = name}

C28_FailureDoesNotAbort ==
    ffPc = "done" =>
        /\ Cardinality(RunsOf("FinalSubmit")) = 1
        /\ \A name \in {"PaymentMethodTab", "CardFieldsInline", "CardFieldsFrames",
                         "TermsAcceptance", "OverlayClear"} : RunsOf(name) # {}

(***************************************************************************)
(* Claims about click_submit_button (checked under SpecSubmit).            *)
(***************************************************************************)
\* the elements click_submit_button clicked or tried to click
SubmitAttempted == {sbLog[k].el : k \in 1..Len(sbLog)}

\* C17: click_submit_button attempts its candidates in rank order such that
\* every candidate that is submit-typed or carries a place-order/submit-order
\* hint comes before any candidate that only matches a curated phrase;
\* footer-scoped and deny-listed elements are never candidates; the first
\* successful click ends the step.
C17_SubmitRankOrder ==
    sbPc # "collect" =>
        /\ \A i, j \in 1..Len(sbScored) :
              i < j => ~(~SubmitBoost(sbDoc[sbScored[i]]) /\ SubmitBoost(sbDoc[sbScored[j]]))
        /\ \A e \in SubmitAttempted : ~sbDoc[e].footer /\ ~SubmitDenied(sbDoc[e])
        /\ \A k \in 1..Len(sbLog) : sbLog[k].outcome = "ok" => k = Len(sbLog)

\* C18: when a click on a final-submit candidate is intercepted by an
\* overlay, the overlay dismisser is invoked and the same element is retried
\* exactly once with a forced (script) click before the next element is tried.
C18_InterceptedRetriedOnce ==
    sbPc = "done" =>
        \A k \in 1..Len(sbLog) :
            (sbLog[k].op = "final_submit" /\ sbLog[k].outcome = "intercepted") =>
                /\ k + 2 <= Len(sbLog)
                /\ sbLog[k + 1].op = "dismiss_overlays"
                /\ sbLog[k + 2].op = "script_click"
                /\ sbLog[k + 2].el = sbLog[k].el

(***************************************************************************)
(* Claims about the waiting operations (checked under SpecWait).           *)
(***************************************************************************)
\* C19: each waiting operation terminates for every configured value of its
\* timeout and poll settings and every page behaviour: the challenge 'wait'
\* strategy returns even if the challenge never clears, and the two
\* wall-clock waits return once their timeout has elapsed.
C19_WaitsTerminate == <>(wPc = "done")

\* the wall-clock waits do end, for every timeout and every page
ClockWaitsTerminate == (wKind \in {"checkout", "confirm"}) ~> (wPc = "done")

\* calls that read the page without acting on it
PageReads == {"title", "page_source"}

\* C20: for every strategy (pause, wait, backoff or an unrecognized value)
\* _handle_detected_challenge performs no click, no input, no script
\* execution and no navigation; it only sleeps and, under 'wait', re-reads
\* the page title and source.
C20_HandlerNeverActs ==
    wKind = "challenge" =>
        /\ wOps \subseteq {"sleep"} \cup PageReads
        /\ strategy # "wait" => wOps \subseteq {"sleep"}
        /\ strategy = "other" => wOps = {}

C20_Witness ==
    /\ wKind = "challenge"
    /\ strategy = "wait"
    /\ wPc = "done"
    /\ wResult = "None"
    /\ waited >= total
    /\ wOps = {"sleep"} \cup PageReads

(***************************************************************************)
(* Claims about the jittered sleeps (checked under SpecSleep).             *)
(***************************************************************************)
\* C21: for all integer settings retry_delay >= 0 and retry_jitter >= 0 the
\* sleep of the 'backoff' strategy and the sleep after a cycle without
\* purchase satisfy retry_delay - retry_jitter <= sleep <= retry_delay + retry_jitter.
C21_SleepWithinJitter ==
    sleep_site \in {"backoff", "retry"} =>
        /\ retry_delay - retry_jitter <= sleep_s
        /\ sleep_s <= retry_delay + retry_jitter

\* C21 as amended: the sleep is at least one second and lies between
\* retry_delay - retry_jitter and max(1, retry_delay + retry_jitter).
C21_SleepWithinJitterOrFloor ==
    sleep_site \in {"backoff", "retry"} =>
        /\ sleep_s >= 1
        /\ retry_delay - retry_jitter <= sleep_s
        /\ sleep_s <= Max2(1, retry_delay + retry_jitter)

\* the floor decides the sleep: delay - jitter < 1 <= the sleep
C21_Witness ==
    /\ sleep_site = "retry"
    /\ retry_delay = 1
    /\ retry_jitter = 2
    /\ sleep_s = 1

(***************************************************************************)
(* Claims about dismiss_banners (checked under SpecBanner).                *)
(***************************************************************************)
\* the clicks of dismiss_banners that succeeded
BannerClicksDone == {k \in 1..Len(bnLog) : bnLog[k].ok}

\* C26: dismiss_banners never raises and returns exactly the number of clicks
\* that succeeded; a failed click counts zero and does not stop the remaining
\* elements; with the dismiss_banners setting false it clicks nothing and
\* returns 0.
C26_ReturnsClicksDone ==
    /\ [](/\ dismissed = Cardinality(BannerClicksDone)
          /\ bnPc = "done" => bnResult = Cardinality(BannerClicksDone)
          /\ bnSetting = "False" => bnLog = <<>>
          /\ (bnPc = "done" /\ bnSetting = "False") => bnResult = 0)
    /\ [][(bnPc \in {"ctas", "closes"} /\ Len(bnLog') > Len(bnLog)) =>
             (bnPc' = bnPc /\ bnI' = bnI + 1)]_vars

\* a refused click was followed by a successful one on a later element
C26_Witness ==
    /\ bnPc = "done"
    /\ Len(bnLog) = 2
    /\ ~bnLog[1].ok
    /\ bnLog[2].ok
    /\ bnLog[1].el # bnLog[2].el
    /\ bnResult = 1

(***************************************************************************)
(* Claims about the field-filling helpers (checked under SpecField).       *)
(***************************************************************************)
\* C27: for every semantic field key absent from cc_info the checkout
\* progression skips that field in every step, nested payment frames
\* included: no input is cleared or written for that key and it is not
\* counted as filled.
C27_AbsentKeySkipped ==
    \A k \in FieldKeys \ cc_keys : k \notin cleared_inputs \cup written_inputs \cup counted

(***************************************************************************)
(* Claims about select_size_on_pdp (checked under SpecSize).               *)
(***************************************************************************)
\* a visible element whose text is exactly the token, and a visible one whose
\* text only holds it
ExactSizeVisible == \E k \in 1..Len(szDoc) : szDoc[k].displayed /\ szDoc[k].txt = szToken
OtherSizeVisible ==
    \E k \in 1..Len(szDoc) :
        szDoc[k].displayed /\ szDoc[k].txt # szToken /\ SizeMatches(szToken, szDoc[k].txt)

\* C29: select_size_on_pdp with preferred size "10" clicks an element whose
\* text is exactly "10" in preference to an element whose text is "10.5" (or
\* a container whose text merely contains "10") whenever both are visible,
\* whatever their document order; with an empty or absent preferred size it
\* clicks nothing and returns false.
C29_ExactSizePreferred ==
    /\ (szToken = "10" /\ ExactSizeVisible /\ OtherSizeVisible /\ szLog # <<>>) =>
            szDoc[szLog[1].el].txt = "10"
    /\ szToken = "" => (szLog = <<>> /\ (szPc = "done" => szResult = "False"))

(***************************************************************************)
(* Claims about _normalize_expiry (checked under SpecExpiry).              *)
(***************************************************************************)
\* the characters of v that are no spaces
RECURSIVE NoSpaces(_)
NoSpaces(v) ==
    IF v = <<>> THEN <<>>
    ELSE IF Head(v) = " " THEN NoSpaces(Tail(v)) ELSE <<Head(v)>> \o NoSpaces(Tail(v))

\* two digits, a separator, two digits
IsSeparated(v) ==
    /\ Len(v) = 5
    /\ IsDigits(SubSeq(v, 1, 2))
    /\ v[3] \in {"-", ".", "/"}
    /\ IsDigits(SubSeq(v, 4, 5))

\* C30: _normalize_expiry maps a 4-digit MMYY input to MM/YY ("1226" to
\* "12/26"), maps input separated by '-', '.' or '/' (with optional spaces)
\* to the '/'-separated form ("12-26" to "12/26"), leaves "12/26" unchanged,
\* and is idempotent.
C30_NormalizeExpiry ==
    /\ exPc # "start" =>
          /\ (Len(expiry_in) = 4 /\ IsDigits(expiry_in)) =>
                expiry_out = <<expiry_in[1], expiry_in[2], "/", expiry_in[3], expiry_in[4]>>
          /\ expiry_in = <<"1", "2", "2", "6">> => expiry_out = <<"1", "2", "/", "2", "6">>
          /\ IsSeparated(NoSpaces(expiry_in)) =>
                LET v == NoSpaces(expiry_in)
                IN  expiry_out = <<v[1], v[2], "/", v[4], v[5]>>
          /\ expiry_in = <<"1", "2", "/", "2", "6">> => expiry_out = expiry_in
    /\ exPc = "twice" => expiry_again = expiry_out

\* "12 .26" became "12/26", and stayed so
C30_Witness ==
    /\ exPc = "twice"
    /\ expiry_in = <<"1", "2", " ", ".", "2", "6">>
    /\ expiry_out = <<"1", "2", "/", "2", "6">>
    /\ expiry_again = expiry_out

(***************************************************************************)
(* Claims about the buy-CTA selection (checked under SpecCta).             *)
(***************************************************************************)
\* the elements of the document that the four functions returned
SelectedCtas ==
    ({inline_btn, near_btn, add_btn} \ {0}) \cup {buy_ctas[k] : k \in DOMAIN buy_ctas}

\* C9: deny patterns take precedence over allow patterns in every buy-CTA
\* selection path: no element returned by find_buy_button_in,
\* find_buy_button_near, find_global_add_to_cart or find_global_buy_ctas
\* matches a deny pattern.
C9_DenyPrecedence ==
    ctaPc = "done" => \A i \in SelectedCtas : ~Denied(doc[i])

\* C10: no buy-CTA selection returns an element that has a footer-like
\* ancestor.
C10_NoFooterCta ==
    ctaPc = "done" => \A i \in SelectedCtas : ~doc[i].footer

====
